---- MODULE Spec2Model ----
(***************************************************************************)
(* A model of ctags-lsp: the JSON-RPC serve loop (main.go, jsonrpc.go),    *)
(* the request dispatcher and its handlers (lsp.go) and the workspace      *)
(* scanner (ctags.go, tagfile.go).  Every request read by the serve loop   *)
(* runs as its own task (goroutine); the steps of a task are the places    *)
(* where it reads or writes the shared Server fields.                      *)
(***************************************************************************)
EXTENDS Integers, Sequences, FiniteSets, TLC

\* ------------------------------------------------------------------ bounds
MaxMsgs == 2          \* frames the serve loop reads in one run
NumCPU == 2           \* runtime.NumCPU() of the machine running the server
MaxFiles == 12        \* longest file list given to the partition of the live scan
MaxWorkers == 8       \* largest parallelism given to the partition
MaxLineNumber == 4    \* largest line number given to findSymbolRangeInFile
MaxExtFields == 2     \* most extension fields of the entry of a tag file
MaxSegs == 3          \* most segments of a path given to toRootRelativePath

\* ------------------------------------------------------- JSON-RPC codes
ErrInvalidRequest == -32600
ErrMethodNotFound == -32601
ErrInvalidParams == -32602
ErrInternal == -32603
ErrNotInitialized == -32002

Null == "null"

\* ------------------------------------------------------------------ paths
\* A path string is a record: abs (leading separator) and its segments.
\* uri marks the "file://" prefix of a file URI.
P(uri, abs, segs) == [uri |-> uri, abs |-> abs, segs |-> segs]

\* Segment names of the model that begin with two dots.
DotDotNames == {"..", "..cfg.go"}

\* strings.CutPrefix(raw, "file://") followed by filepath.FromSlash
CutFileScheme(raw) == [raw EXCEPT !.uri = FALSE]

RECURSIVE CleanSegs(_, _, _)
CleanSegs(segs, abs, out) ==
    IF segs = <<>> THEN out
    ELSE LET s == Head(segs)
             rest == Tail(segs)
         IN  IF s = "." THEN CleanSegs(rest, abs, out)
             ELSE IF s = ".."
                  THEN IF out # <<>> /\ out[Len(out)] # ".."
                       THEN CleanSegs(rest, abs, SubSeq(out, 1, Len(out) - 1))
                       ELSE IF abs THEN CleanSegs(rest, abs, out)
                            ELSE CleanSegs(rest, abs, Append(out, ".."))
                  ELSE CleanSegs(rest, abs, Append(out, s))

\* filepath.Clean; the relative path "." is the empty segment list
Clean(p) == [p EXCEPT !.segs = CleanSegs(p.segs, p.abs, <<>>)]

RECURSIVE CommonLen(_, _)
CommonLen(a, b) ==
    IF a = <<>> \/ b = <<>> \/ Head(a) # Head(b) THEN 0
    ELSE 1 + CommonLen(Tail(a), Tail(b))

\* filepath.Rel(base, target): fails when only one of the two is absolute
\* or when the base has ".." segments the target cannot be related to
Rel(base, target) ==
    LET b == Clean(base)
        t == Clean(target)
        n == CommonLen(b.segs, t.segs)
        ups == [i \in 1..(Len(b.segs) - n) |-> ".."]
    IN  IF b.abs # t.abs THEN [ok |-> FALSE, segs |-> <<>>]
        ELSE IF \E i \in (n + 1)..Len(b.segs) : b.segs[i] = ".."
             THEN [ok |-> FALSE, segs |-> <<>>]
             ELSE [ok |-> TRUE,
                   segs |-> ups \o SubSeq(t.segs, n + 1, Len(t.segs))]

\* strings.HasPrefix(rel, "..")
HasDotDotPrefix(segs) == segs # <<>> /\ segs[1] \in DotDotNames

\* Mutant: a relative path that names the root directory first is taken to
\* be relative to the parent of the root
toRootRelativePathUnderParent(rootPath, raw) ==
    LET clean == Clean(CutFileScheme(raw))
        base == IF rootPath.segs = <<>> THEN "" ELSE rootPath.segs[Len(rootPath.segs)]
    IN  IF clean.abs
        THEN LET rel == Rel(rootPath, clean)
             IN  IF ~rel.ok THEN [ok |-> FALSE, segs |-> <<>>]
                 ELSE IF HasDotDotPrefix(rel.segs)
                      THEN [ok |-> FALSE, segs |-> <<>>]
                      ELSE [ok |-> TRUE, segs |-> rel.segs]
        ELSE IF HasDotDotPrefix(clean.segs)
             THEN [ok |-> FALSE, segs |-> <<>>]
             ELSE IF clean.segs # <<>> /\ clean.segs[1] = base
                  THEN [ok |-> TRUE, segs |-> Tail(clean.segs)]
                  ELSE [ok |-> TRUE, segs |-> clean.segs]

\* Mutant: an absolute path is made relative to the root and not tested
\* for leaving it
toRootRelativePathUntested(rootPath, raw) ==
    LET clean == Clean(CutFileScheme(raw))
    IN  IF clean.abs
        THEN LET rel == Rel(rootPath, clean)
             IN  IF ~rel.ok THEN [ok |-> FALSE, segs |-> <<>>]
                 ELSE [ok |-> TRUE, segs |-> rel.segs]
        ELSE IF HasDotDotPrefix(clean.segs)
             THEN [ok |-> FALSE, segs |-> <<>>]
             ELSE [ok |-> TRUE, segs |-> clean.segs]

toRootRelativePath(rootPath, raw) ==
    LET clean == Clean(CutFileScheme(raw))
    IN  IF clean.abs
        THEN LET rel == Rel(rootPath, clean)
             IN  IF ~rel.ok THEN [ok |-> FALSE, segs |-> <<>>]
                 ELSE IF HasDotDotPrefix(rel.segs)
                      THEN [ok |-> FALSE, segs |-> <<>>]
                      ELSE [ok |-> TRUE, segs |-> rel.segs]
        ELSE IF HasDotDotPrefix(clean.segs)
             THEN [ok |-> FALSE, segs |-> <<>>]
             ELSE [ok |-> TRUE, segs |-> clean.segs]

\* filepath.Join(a, b) followed by filepath.Clean
JoinClean(a, b) == Clean([a EXCEPT !.segs = a.segs \o b.segs])

\* filepath.Dir
Dir(p) ==
    LET c == Clean(p)
    IN  [c EXCEPT !.segs = IF c.segs = <<>> THEN <<>>
                           ELSE SubSeq(c.segs, 1, Len(c.segs) - 1)]

tagfilePathToRootRelative(rootPath, tagsPath, raw) ==
    LET clean == Clean(CutFileScheme(raw))
        resolved == IF clean.abs THEN clean ELSE JoinClean(Dir(tagsPath), clean)
    IN  toRootRelativePath(rootPath, resolved)


\* ------------------------------------------------------------ environment
RootDir == P(FALSE, TRUE, <<"ws">>)             \* the workspace root, /ws
NoRoot == P(FALSE, FALSE, <<>>)                 \* rootPath "" before initialize
RootURI == P(TRUE, TRUE, <<"ws">>)              \* file:///ws
ExplicitTagfile == P(FALSE, FALSE, <<"custom.tags">>)   \* --tagfile custom.tags

\* tagsLocations of findTagsFile, in its order
tagsLocations == << <<"tags">>, <<".tags">>, <<".git", "tags">> >>

\* The lines of each tag file of the workspace: name, path as written in
\* the file, kind and line.
TagLine(name, path, kind, line) ==
    [name |-> name, path |-> path, kind |-> kind, line |-> line]

TagfileLines(tagsPath) ==
    CASE tagsPath.segs = <<"ws", "tags">> ->
            << TagLine("Greeter", P(FALSE, FALSE, <<"a.go">>), "struct", 3) >>
      [] tagsPath.segs = <<"ws", ".tags">> ->
            << TagLine("Bee", P(FALSE, FALSE, <<"b.go">>), "function", 1) >>
      [] tagsPath.segs = <<"ws", ".git", "tags">> ->
            << TagLine("Out", P(FALSE, FALSE, <<"..", "..", "etc", "x.go">>), "function", 1),
               TagLine("Hello", P(FALSE, FALSE, <<"..", "a.go">>), "method", 5) >>
      [] tagsPath.segs = <<"ws", "custom.tags">> ->
            << TagLine("Custom", P(FALSE, FALSE, <<"a.go">>), "function", 7) >>
      [] OTHER -> <<>>

\* The file list listWorkspaceFiles returns for the workspace (root-relative)
WorkspaceFiles == << <<"a.go">>, <<"b.go">>, <<"c.go">> >>

\* One line of the indexer's JSON output: json is FALSE for a line that
\* does not decode.
OutLine(json, name, path, kind, line) ==
    [json |-> json, name |-> name, path |-> path, kind |-> kind, line |-> line]

\* What the external indexer prints for one file
CtagsFileOutput(file) ==
    CASE file = <<"a.go">> ->
            << OutLine(TRUE, "Greeter", P(FALSE, FALSE, <<"a.go">>), "struct", 3),
               OutLine(TRUE, "Hello", P(FALSE, FALSE, <<"a.go">>), "method", 5) >>
      [] file = <<"b.go">> ->
            << OutLine(FALSE, "", P(FALSE, FALSE, <<>>), "", 0),
               OutLine(TRUE, "Bee", P(FALSE, FALSE, <<"b.go">>), "function", 1) >>
      [] file = <<"c.go">> ->
            << OutLine(TRUE, "Out", P(FALSE, TRUE, <<"etc", "x.go">>), "function", 1),
               OutLine(TRUE, "Sea", P(FALSE, TRUE, <<"ws", "c.go">>), "function", 2) >>
      [] OTHER -> <<>>

RECURSIVE CtagsOutput(_)
CtagsOutput(files) ==
    IF files = <<>> THEN <<>>
    ELSE CtagsFileOutput(Head(files)) \o CtagsOutput(Tail(files))

\* ------------------------------------------------------------- tag index
TagEntry(name, path, kind, line) ==
    [name |-> name, path |-> path, kind |-> kind, line |-> line]

\* Mutant: a line whose path cannot be made root-relative is kept as written
parseTagfileEntryKeepsPath(ln, tagsPath, rootPath) ==
    LET rel == tagfilePathToRootRelative(rootPath, tagsPath, ln.path)
    IN  [ok |-> TRUE,
         entry |-> TagEntry(ln.name, IF rel.ok THEN rel.segs ELSE ln.path.segs,
                            ln.kind, ln.line)]

\* parseTagfileEntry: the record of one line, or a skipped line
parseTagfileEntry(ln, tagsPath, rootPath) ==
    LET rel == tagfilePathToRootRelative(rootPath, tagsPath, ln.path)
    IN  IF rel.ok
        THEN [ok |-> TRUE, entry |-> TagEntry(ln.name, rel.segs, ln.kind, ln.line)]
        ELSE [ok |-> FALSE, entry |-> TagEntry("", <<>>, "", 0)]

RECURSIVE parseTagfileLines(_, _, _)
parseTagfileLines(lns, tagsPath, rootPath) ==
    IF lns = <<>> THEN <<>>
    ELSE LET r == parseTagfileEntry(Head(lns), tagsPath, rootPath)
             rest == parseTagfileLines(Tail(lns), tagsPath, rootPath)
         IN  IF r.ok THEN <<r.entry>> \o rest ELSE rest

parseTagfile(tagsPath, rootPath) ==
    parseTagfileLines(TagfileLines(tagsPath), tagsPath, rootPath)

\* The decoding loop of processTagsOutput: lines that do not decode and
\* records whose path cannot be made root-relative are skipped.
RECURSIVE decodeTagsOutput(_, _)
decodeTagsOutput(lns, rootPath) ==
    IF lns = <<>> THEN <<>>
    ELSE LET ln == Head(lns)
             rel == toRootRelativePath(rootPath, ln.path)
             rest == decodeTagsOutput(Tail(lns), rootPath)
         IN  IF ln.json /\ rel.ok
             THEN <<TagEntry(ln.name, rel.segs, ln.kind, ln.line)>> \o rest
             ELSE rest

\* The partition of the file list made by scanWorkspace
ChunkSize(n) == (n + NumCPU - 1) \div NumCPU

Min(a, b) == IF a < b THEN a ELSE b

\* Mutant: the chunk size is rounded down, the loop runs over the workers
ChunksOfFloor(files, workers) ==
    LET size == Len(files) \div workers
        started == {i \in 0..(workers - 1) : size > 0 /\ i * size < Len(files)}
    IN  [k \in 1..Cardinality(started) |->
            SubSeq(files, (k - 1) * size + 1, Min(k * size, Len(files)))]

\* The loop "for i := range workers" of scanWorkspace: chunk i is
\* files[i*size : min(i*size+size, len)], the loop stops at the first start
\* that is past the end of the list
ChunksOf(files, workers) ==
    LET size == (Len(files) + workers - 1) \div workers
        started == {i \in 0..(workers - 1) : i * size < Len(files)}
    IN  [k \in 1..Cardinality(started) |->
            SubSeq(files, (k - 1) * size + 1, Min(k * size, Len(files)))]

\* Mutant: every goroutine is given the whole list
ChunksUncut(files) == [k \in DOMAIN ChunksOf(files, NumCPU) |-> files]

Chunks(files) == ChunksOf(files, NumCPU)

\* --------------------------------------------------------------- framing
\* An input frame as readMessage sees it:
\*   hdr   "crlf": every header line ends with \r\n
\*         "cr":   a \r that is not followed by \n
\*         "eof":  the input ends before the next \r
\*   cl    the Content-Length header: "ok", "absent", "nan" (not a number)
\*         or "neg" (a negative number)
\*   body  "json" or "garbage"
\*   req   the decoded body: method, id shape and params
IdShapes == {"absent", "null", "string", "int", "float", "bool", "object", "array"}

Frame(hdr, cl, body, req) == [hdr |-> hdr, cl |-> cl, body |-> body, req |-> req]

Req(method, id, params) == [method |-> method, id |-> id, params |-> params]

NoParams == [ok |-> TRUE, uri |-> NoRoot, text |-> <<>>]
BadParams == [ok |-> FALSE, uri |-> NoRoot, text |-> <<>>]
Params(uri, text) == [ok |-> TRUE, uri |-> uri, text |-> text]

\* WorkspaceSymbolParams: the query, a name or "" for none
QueryParams(query) == [ok |-> TRUE, uri |-> NoRoot, text |-> <<>>, query |-> query]

\* TextDocumentPositionParams: the document and Position{Line, Character}
PositionParams(uri, line, character) ==
    [ok |-> TRUE, uri |-> uri, text |-> <<>>, line |-> line, character |-> character]

DocInside == P(TRUE, TRUE, <<"ws", "a.go">>)          \* file:///ws/a.go
DocOutside == P(TRUE, TRUE, <<"ws", "..", "x.go">>)   \* file:///ws/../x.go
DocText == <<"f", "\n", "g">>

\* The methods of handleRequest's switch
NoOpMethods == {"initialized", "$/cancelRequest", "$/setTrace", "$/logTrace"}
HandledMethods ==
    {"initialize", "shutdown", "exit",
     "textDocument/didOpen", "textDocument/didChange", "textDocument/didClose",
     "textDocument/didSave", "textDocument/completion", "textDocument/definition",
     "workspace/symbol", "textDocument/documentSymbol"}
PreInitMethods == {"initialize", "shutdown", "exit"}

\* The request bodies the client sends in this model
ClientCalls ==
    { <<"initialize", Params(RootURI, <<>>)>>,
      <<"initialize", BadParams>>,
      <<"initialized", NoParams>>,
      <<"shutdown", NoParams>>,
      <<"exit", NoParams>>,
      <<"textDocument/didOpen", Params(DocInside, DocText)>>,
      <<"textDocument/didSave", Params(DocInside, <<>>)>>,
      <<"foo/unknown", NoParams>> }

\* Every call is sent as a notification and with an integer id, one call
\* with every shape of id
GoodFrames ==
    {Frame("crlf", "ok", "json", Req(c[1], id, c[2])) :
        c \in ClientCalls, id \in {"absent", "int"}}
    \cup {Frame("crlf", "ok", "json", Req("shutdown", id, NoParams)) : id \in IdShapes}

AnyReq == Req("initialized", "absent", NoParams)

MalformedFrames ==
    { Frame("cr", "ok", "json", AnyReq),
      Frame("crlf", "nan", "json", AnyReq),
      Frame("crlf", "neg", "json", AnyReq),
      Frame("crlf", "absent", "json", AnyReq),
      Frame("crlf", "ok", "garbage", AnyReq) }

EndOfInput == Frame("eof", "ok", "json", AnyReq)

Frames == GoodFrames \cup MalformedFrames \cup {EndOfInput}

\* json.Unmarshal into the *json.RawMessage field ID: an absent id and a
\* null id both leave the pointer nil
DecodeID(shape) == IF shape \in {"absent", "null"} THEN Null ELSE shape

\* Mutant: the id is decoded as any JSON number
isInvalidIDAnyNumber(id) ==
    IF id = Null THEN FALSE
    ELSE IF id = "string" THEN FALSE
         ELSE IF id \in {"int", "float"} THEN FALSE
              ELSE TRUE

isInvalidID(id) ==
    IF id = Null THEN FALSE
    ELSE IF id = "string" THEN FALSE
         ELSE IF id = "int" THEN FALSE
              ELSE TRUE

isNotification(req) == req.id = Null

\* readMessage: "req" with the request, "err" for an error other than
\* end of input, "eof" for an error wrapping io.EOF, "panic" when
\* make([]byte, contentLength) is called with a negative length
readMessage(f) ==
    LET contentLength == IF f.cl = "absent" THEN "zero" ELSE f.cl
        body == IF contentLength = "zero" THEN "empty" ELSE f.body
        req == [f.req EXCEPT !.id = DecodeID(f.req.id)]
        Fail(kind, text) == [kind |-> kind, req |-> req, err |-> text]
    IN  IF f.hdr = "eof" THEN Fail("eof", "error reading header: EOF")
        ELSE IF f.hdr = "cr" THEN Fail("err", "line endings must be \\r\\n")
        ELSE IF f.cl = "nan" THEN Fail("err", "invalid Content-Length")
        ELSE IF contentLength = "neg" THEN Fail("panic", "makeslice: len out of range")
        ELSE IF body # "json" THEN Fail("err", "invalid JSON-RPC request")
        ELSE IF isInvalidID(req.id) THEN Fail("err", "id must be a string or integer")
        ELSE [kind |-> "req", req |-> req, err |-> ""]

\* strings.Split(text, "\n")
RECURSIVE SplitLines(_, _)
SplitLines(text, cur) ==
    IF text = <<>> THEN <<cur>>
    ELSE IF Head(text) = "\n" THEN <<cur>> \o SplitLines(Tail(text), <<>>)
         ELSE SplitLines(Tail(text), Append(cur, Head(text)))


\* ------------------------------------------------------------------ state
VARIABLES
    proc,          \* "up", "exit" (os.Exit in handleExit), "eof" (serve returned and
                   \* main exited) or "crashed" (panic)
    nread,         \* frames consumed by the serve loop
    tasks,         \* one record per goroutine started by serve, in arrival order
    initialized,   \* Server.initialized
    rootPath,      \* Server.rootPath
    tagEntries,    \* Server.tagEntries
    cache,         \* Server.cache.content
    output,        \* the responses written to Server.output, by writer:
                   \* output[0] by the serve loop, output[i] by task i
    tagfilePath,   \* Server.tagfilePath: NoRoot when --tagfile is not given
    disk,          \* the tag files that exist (absolute segment lists)
    listFails,     \* listWorkspaceFiles returns an error
    rescans,       \* single-file rescans that have replaced entries so far
    probe          \* the last application of a function to arguments of its
                   \* own (the specifications of single functions)

vars == <<proc, nread, tasks, initialized, rootPath, tagEntries, cache, output,
          tagfilePath, disk, listFails, rescans, probe>>

\* What no step of the server changes
env == <<tagfilePath, disk, listFails, probe>>

NoProbe == [fn |-> "none"]

TaskIds == 1..MaxMsgs
ChunkIds == 1..NumCPU

TagfileCandidates ==
    {<<"ws", "tags">>, <<"ws", ".tags">>, <<"ws", ".git", "tags">>}

World(path, files, fails) == [tagfilePath |-> path, disk |-> files, listFails |-> fails]

\* The configurations and workspaces the server is started in: without
\* --tagfile over every set of conventional tag files, and with --tagfile
\* custom.tags present or missing
Worlds ==
    {World(NoRoot, d, FALSE) : d \in SUBSET TagfileCandidates}
    \cup {World(NoRoot, {}, TRUE)}
    \cup {World(ExplicitTagfile, d \cup c, FALSE) :
             d \in {{}, TagfileCandidates}, c \in {{}, {<<"ws", "custom.tags">>}}}

Init ==
    /\ proc = "up"
    /\ nread = 0
    /\ tasks = <<>>
    /\ initialized = FALSE
    /\ rootPath = NoRoot
    /\ tagEntries = <<>>
    /\ cache = <<>>
    /\ output = [w \in 0..MaxMsgs |-> <<>>]
    /\ rescans = 0
    /\ probe = NoProbe
    /\ \E w \in Worlds :
          /\ tagfilePath = w.tagfilePath
          /\ disk = w.disk
          /\ listFails = w.listFails

\* A response: a result (code 0) or an error with its code and data
Response(id, code) == [jsonrpc |-> "2.0", id |-> id, code |-> code, data |-> ""]
ErrorData(id, code, data) ==
    [jsonrpc |-> "2.0", id |-> id, code |-> code, data |-> data]

\* json.Marshal of a response struct: its members in declaration order, each
\* standing for the bytes written for it (neither struct has an omitempty
\* member at the top level)
Marshal(resp) ==
    <<[name |-> "jsonrpc", value |-> resp.jsonrpc], [name |-> "id", value |-> resp.id],
      IF resp.code = 0
      THEN [name |-> "result",
            value |-> IF "result" \in DOMAIN resp THEN resp.result ELSE Null]
      ELSE [name |-> "error", value |-> [code |-> resp.code, data |-> resp.data]]>>

\* The frame of sendResponse: "Content-Length: <len(body)>\r\n\r\n<body>",
\* kept as the response it carries with the header's number
Framed(resp) ==
    [f \in DOMAIN resp \cup {"contentLength"} |->
        IF f = "contentLength" THEN Len(Marshal(resp)) ELSE resp[f]]

\* sendResponse by writer w
Send(w, resp) == output' = [output EXCEPT ![w] = Append(@, Framed(resp))]

\* The id a response echoes: requests are numbered by arrival
NullID == [shape |-> Null, n |-> 0]
\* Mutant: the id of the latest message read, not of the request answered
ReqIDLatest(i) ==
    IF tasks[i].id = Null THEN NullID ELSE [shape |-> tasks[i].id, n |-> Len(tasks)]

ReqID(i) == IF tasks[i].id = Null THEN NullID ELSE [shape |-> tasks[i].id, n |-> i]

\* sendResult(req.ID, ...) and sendError(req.ID, code, ...)
sendResult(i) == Send(i, Response(ReqID(i), 0))
sendError(i, code) == Send(i, Response(ReqID(i), code))

\* sendError with its message and sendResult with the value it carries
sendErrorData(i, code, data) == Send(i, ErrorData(ReqID(i), code, data))
sendResultOf(i, result) ==
    Send(i, [jsonrpc |-> "2.0", id |-> ReqID(i), code |-> 0, data |-> "",
             result |-> result])

\* guard records what the first test of handleRequest decided
NewTask(req) ==
    [method |-> req.method, id |-> req.id, params |-> req.params,
     pc |-> "start", guard |-> "none", path |-> <<>>, parsed |-> <<>>,
     chunks |-> <<>>, local |-> <<>>]

\* The goroutine of task i returns
Return(i, guard) ==
    tasks' = [tasks EXCEPT ![i].pc = "done", ![i].guard = guard,
                           ![i].params = IF @.ok THEN NoParams ELSE BadParams,
                           ![i].path = <<>>, ![i].local = <<>>]

Goto(i, pc) == tasks' = [tasks EXCEPT ![i].pc = pc, ![i].guard = "passed"]

\* The process ends with the given status: its goroutines and the Server
\* object are gone, what it has written to the output stays
Halt(status) ==
    /\ proc' = status
    /\ tasks' = <<>>
    /\ initialized' = FALSE
    /\ rootPath' = NoRoot
    /\ tagEntries' = <<>>
    /\ cache' = <<>>
    /\ rescans' = 0
    /\ UNCHANGED <<nread, output, env>>

\* ------------------------------------------------------------- serve loop
\* serve: a request is read and handed to a new goroutine
ServeDispatch(f) ==
    /\ proc = "up" /\ nread < MaxMsgs
    /\ readMessage(f).kind = "req"
    /\ tasks' = Append(tasks, NewTask(readMessage(f).req))
    /\ nread' = nread + 1
    /\ UNCHANGED <<proc, initialized, rootPath, tagEntries, cache, output, env, rescans>>

\* serve: readMessage fails, the error is answered and the loop continues
ServeMalformed(f) ==
    /\ proc = "up" /\ nread < MaxMsgs
    /\ readMessage(f).kind = "err"
    /\ Send(0, ErrorData(NullID, ErrInvalidRequest, readMessage(f).err))
    /\ nread' = nread + 1
    /\ UNCHANGED <<proc, tasks, initialized, rootPath, tagEntries, cache, env, rescans>>

\* serve: make([]byte, contentLength) panics in the serving goroutine
ServePanic(f) ==
    /\ proc = "up" /\ nread < MaxMsgs
    /\ readMessage(f).kind = "panic"
    /\ Halt("crashed")

\* serve returns nil at the end of the input; run returns 0, main exits
ServeEOF(f) ==
    /\ proc = "up"
    /\ readMessage(f).kind = "eof"
    /\ Halt("eof")

\* ---------------------------------------------------------- handleRequest
Running(i) == proc = "up" /\ i \in DOMAIN tasks

\* Mutant: didOpen is let through before initialization
notInitializedButOpen(t) ==
    ~initialized /\ t.method \notin PreInitMethods \cup {"textDocument/didOpen"}

\* The first test of handleRequest: the request is turned away
notInitialized(t) == ~initialized /\ t.method \notin PreInitMethods

\* Task i enters the case of the switch for the given method
Handling(i, method) ==
    /\ Running(i) /\ tasks[i].pc = "start"
    /\ ~notInitialized(tasks[i])
    /\ tasks[i].method = method

\* handleRequest returns at its first test
RejectNotInitialized(i) ==
    /\ Running(i) /\ tasks[i].pc = "start"
    /\ notInitialized(tasks[i])
    /\ IF isNotification(tasks[i])
       THEN UNCHANGED output
       ELSE sendError(i, ErrNotInitialized)
    /\ Return(i, "rejected")
    /\ UNCHANGED <<proc, nread, initialized, rootPath, tagEntries, cache, env, rescans>>

\* Mutant: the default case answers notifications too
MethodNotFoundAnswersAll(i) ==
    /\ Running(i) /\ tasks[i].pc = "start"
    /\ ~notInitialized(tasks[i])
    /\ tasks[i].method \notin HandledMethods \cup NoOpMethods
    /\ sendError(i, ErrMethodNotFound)
    /\ Return(i, "passed")
    /\ UNCHANGED <<proc, nread, initialized, rootPath, tagEntries, cache, env, rescans>>

\* default: of the switch
MethodNotFound(i) ==
    /\ Running(i) /\ tasks[i].pc = "start"
    /\ ~notInitialized(tasks[i])
    /\ tasks[i].method \notin HandledMethods \cup NoOpMethods
    /\ IF isNotification(tasks[i])
       THEN UNCHANGED output
       ELSE sendError(i, ErrMethodNotFound)
    /\ Return(i, "passed")
    /\ UNCHANGED <<proc, nread, initialized, rootPath, tagEntries, cache, env, rescans>>

\* case "initialized", "$/cancelRequest", "$/setTrace", "$/logTrace"
NoOp(i) ==
    /\ Running(i) /\ tasks[i].pc = "start"
    /\ ~notInitialized(tasks[i])
    /\ tasks[i].method \in NoOpMethods
    /\ Return(i, "passed")
    /\ UNCHANGED <<proc, nread, initialized, rootPath, tagEntries, cache, output, env, rescans>>

handleShutdown(i) ==
    /\ Handling(i, "shutdown")
    /\ sendResult(i)
    /\ Return(i, "passed")
    /\ UNCHANGED <<proc, nread, initialized, rootPath, tagEntries, cache, env, rescans>>

\* Mutant: handleExit returns without ending the process
handleExitReturns(i) ==
    /\ Handling(i, "exit")
    /\ Return(i, "passed")
    /\ UNCHANGED <<proc, nread, initialized, rootPath, tagEntries, cache, output, env, rescans>>

handleExit(i) ==
    /\ Handling(i, "exit")
    /\ Halt("exit")

\* -------------------------------------------------------- handleInitialize
\* handleInitialize up to the call of scanWorkspace: the params are decoded
\* and rootPath is set
handleInitialize(i) ==
    /\ Handling(i, "initialize")
    /\ IF ~tasks[i].params.ok
       THEN /\ sendError(i, ErrInvalidParams)
            /\ Return(i, "passed")
            /\ UNCHANGED rootPath
       ELSE /\ rootPath' = CutFileScheme(tasks[i].params.uri)
            /\ Goto(i, "scan")
            /\ UNCHANGED output
    /\ UNCHANGED <<proc, nread, initialized, tagEntries, cache, env, rescans>>

\* os.Stat(path) succeeds
Exists(path) == path.segs \in disk

\* Mutant: the last existing location wins
findTagsFileLast(root) ==
    LET hits == {k \in DOMAIN tagsLocations :
                    Exists(JoinClean(root, P(FALSE, FALSE, tagsLocations[k])))}
        last == CHOOSE k \in hits : \A m \in hits : k >= m
    IN  IF hits = {} THEN [found |-> FALSE, path |-> NoRoot]
        ELSE [found |-> TRUE,
              path |-> JoinClean(root, P(FALSE, FALSE, tagsLocations[last]))]

findTagsFile(root) ==
    LET hits == {k \in DOMAIN tagsLocations :
                    Exists(JoinClean(root, P(FALSE, FALSE, tagsLocations[k])))}
        first == CHOOSE k \in hits : \A m \in hits : k <= m
    IN  IF hits = {} THEN [found |-> FALSE, path |-> NoRoot]
        ELSE [found |-> TRUE,
              path |-> JoinClean(root, P(FALSE, FALSE, tagsLocations[first]))]

\* Mutant: a missing explicit tag file falls back to the other policies
scanPolicyFallsBack(root) ==
    LET explicit == IF tagfilePath.abs THEN Clean(tagfilePath)
                    ELSE JoinClean(root, tagfilePath)
    IN  IF tagfilePath # NoRoot /\ Exists(explicit)
        THEN [policy |-> "explicit", path |-> explicit]
        ELSE IF findTagsFile(root).found
             THEN [policy |-> "discovered", path |-> findTagsFile(root).path]
             ELSE [policy |-> "live", path |-> NoRoot]

\* The policy scanWorkspace takes: "explicit", "discovered" or "live", and
\* the tag file it is about to read
scanPolicy(root) ==
    IF tagfilePath # NoRoot
    THEN [policy |-> "explicit",
          path |-> IF tagfilePath.abs THEN Clean(tagfilePath)
                   ELSE JoinClean(root, tagfilePath)]
    ELSE IF findTagsFile(root).found
         THEN [policy |-> "discovered", path |-> findTagsFile(root).path]
         ELSE [policy |-> "live", path |-> NoRoot]

\* scanWorkspace up to its first return or to wg.Wait(); an error return is
\* answered by handleInitialize with -32603
scanWorkspace(i) ==
    /\ Running(i) /\ tasks[i].pc = "scan"
    /\ LET pol == scanPolicy(rootPath)
       IN  CASE pol.policy = "explicit" /\ ~Exists(pol.path) ->
                  /\ sendError(i, ErrInternal)
                  /\ Return(i, "passed")
                  /\ UNCHANGED tagEntries
             [] pol.policy = "live" /\ listFails ->
                  /\ sendError(i, ErrInternal)
                  /\ Return(i, "passed")
                  /\ UNCHANGED tagEntries
             [] pol.policy = "live" /\ ~listFails ->
                  /\ tasks' = [tasks EXCEPT
                        ![i].pc = "wait",
                        ![i].chunks = [k \in DOMAIN Chunks(WorkspaceFiles) |->
                                          [files |-> Chunks(WorkspaceFiles)[k],
                                           st |-> "running"]]]
                  /\ UNCHANGED <<tagEntries, output>>
             [] OTHER ->
                  /\ tagEntries' = tagEntries \o parseTagfile(pol.path, rootPath)
                  /\ tasks' = [tasks EXCEPT ![i].pc = "scanned",
                                            ![i].parsed = <<pol.path.segs>>]
                  /\ UNCHANGED output
    /\ UNCHANGED <<proc, nread, initialized, rootPath, cache, env, rescans>>

\* Mutant: the records read before the failure are appended as well
tagsOutputEntriesKept(files, ok, root) ==
    decodeTagsOutput(CtagsOutput(files), root)

\* What processTagsOutput appends for an invocation over the given files:
\* the decoded records when the invocation succeeds, nothing when it fails
tagsOutputEntries(files, ok, root) ==
    IF ok THEN decodeTagsOutput(CtagsOutput(files), root) ELSE <<>>

\* processTagsOutput of one chunk's invocation, run by the chunk's goroutine
processTagsOutput(i, k, ok) ==
    /\ Running(i) /\ tasks[i].pc = "wait"
    /\ k \in DOMAIN tasks[i].chunks
    /\ tasks[i].chunks[k].st = "running"
    /\ tagEntries' = tagEntries \o tagsOutputEntries(tasks[i].chunks[k].files, ok, rootPath)
    /\ tasks' = [tasks EXCEPT ![i].chunks[k].st = IF ok THEN "ok" ELSE "failed"]
    /\ UNCHANGED <<proc, nread, initialized, rootPath, cache, output, env, rescans>>

\* Mutant: the wait group is not waited for
wgWaitSkipped(t) == TRUE

\* wg.Wait() returns
wgWait(t) == \A k \in DOMAIN t.chunks : t.chunks[k].st # "running"

\* scanWorkspace has returned nil: sendResult(req.ID, result)
initializeRespond(i) ==
    /\ Running(i)
    /\ \/ tasks[i].pc = "scanned"
       \/ tasks[i].pc = "wait" /\ wgWait(tasks[i])
    /\ sendResult(i)
    /\ Goto(i, "responded")
    /\ UNCHANGED <<proc, nread, initialized, rootPath, tagEntries, cache, env, rescans>>

\* server.initialized = true
initializeDone(i) ==
    /\ Running(i) /\ tasks[i].pc = "responded"
    /\ initialized' = TRUE
    /\ Return(i, "passed")
    /\ UNCHANGED <<proc, nread, rootPath, tagEntries, cache, output, env, rescans>>

\* ------------------------------------------------- document notifications
CachePut(c, path, lines) ==
    [p \in DOMAIN c \cup {path} |-> IF p = path THEN lines ELSE c[p]]

handleDidOpen(i) ==
    /\ Handling(i, "textDocument/didOpen")
    /\ LET t == tasks[i]
           rel == toRootRelativePath(rootPath, t.params.uri)
       IN  IF t.params.ok /\ rel.ok
           THEN cache' = CachePut(cache, rel.segs, SplitLines(t.params.text, <<>>))
           ELSE UNCHANGED cache
    /\ Return(i, "passed")
    /\ UNCHANGED <<proc, nread, initialized, rootPath, tagEntries, output, env, rescans>>

\* Mutant: every entry is kept, the rescan appends to those of the path
dropPathKeepsAll(entries, path) == entries

\* The entries scanSingleFileTag keeps: those of every other path
RECURSIVE dropPath(_, _)
dropPath(entries, path) ==
    IF entries = <<>> THEN <<>>
    ELSE IF Head(entries).path # path
         THEN <<Head(entries)>> \o dropPath(Tail(entries), path)
         ELSE dropPath(Tail(entries), path)

\* handleDidSave up to the start of the indexer in scanSingleFileTag
handleDidSave(i) ==
    /\ Handling(i, "textDocument/didSave")
    /\ LET t == tasks[i]
           rel == toRootRelativePath(rootPath, t.params.uri)
       IN  IF t.params.ok /\ rel.ok /\ ~HasDotDotPrefix(rel.segs)
           THEN /\ tagEntries' = dropPath(tagEntries, rel.segs)
                /\ rescans' = rescans + 1
                /\ tasks' = [tasks EXCEPT ![i].pc = "rescan", ![i].guard = "passed",
                                          ![i].path = rel.segs]
           ELSE /\ Return(i, "passed")
                /\ UNCHANGED <<tagEntries, rescans>>
    /\ UNCHANGED <<proc, nread, initialized, rootPath, cache, output, env>>

\* scanSingleFileTag: processTagsOutput of the single-file invocation
scanSingleFileTag(i, ok) ==
    /\ Running(i) /\ tasks[i].pc = "rescan"
    /\ tagEntries' = tagEntries \o tagsOutputEntries(<<tasks[i].path>>, ok, rootPath)
    /\ Return(i, "passed")
    /\ UNCHANGED <<proc, nread, initialized, rootPath, cache, output, env, rescans>>

\* ------------------------------------------------------------- completion
\* The characters of the tag names and of the document lines of the model
IdentChars == {"h", "H", "i", "o", "x", "_", "$"}

\* isIdentifierChar: a letter, a digit, '_' or '$'
isIdentifierChar(c) == c \in IdentChars

\* []rune(name) for the tag names of the model
Runes(name) ==
    CASE name = "Hi" -> <<"H", "i">>
      [] name = "hi" -> <<"h", "i">>
      [] name = "Ho" -> <<"H", "o">>
      [] name = "x" -> <<"x">>
      [] name = "Hello" -> <<"H", "e", "l", "l", "o">>
      [] name = "Sea" -> <<"S", "e", "a">>
      [] name = "Out" -> <<"O", "u", "t">>
      [] name = "Greeter" -> <<"G", "r", "e", "e", "t", "e", "r">>
      [] name = "Bee" -> <<"B", "e", "e">>
      [] name = "Custom" -> <<"C", "u", "s", "t", "o", "m">>
      [] name = "é" -> <<"é">>
      [] OTHER -> <<>>

toLowerRune(c) ==
    CASE c = "H" -> "h"
      [] c = "S" -> "s"
      [] c = "O" -> "o"
      [] c = "G" -> "g"
      [] c = "B" -> "b"
      [] c = "C" -> "c"
      [] OTHER -> c

\* strings.ToLower
ToLower(runes) == [k \in DOMAIN runes |-> toLowerRune(runes[k])]

\* strings.HasPrefix
HasPrefix(s, prefix) ==
    Len(prefix) <= Len(s) /\ SubSeq(s, 1, Len(prefix)) = prefix

\* filepath.Ext: the extension of the last element; the relative path
\* without segments is "."
Ext(p) ==
    IF p.segs = <<>> THEN IF p.abs THEN "" ELSE "."
    ELSE LET base == p.segs[Len(p.segs)]
         IN  CASE base \in {"a.go", "b.go", "c.go", "e.go", "x.go", "..cfg.go"} -> ".go"
               [] base = "b.py" -> ".py"
               [] base = "d.md" -> ".md"
               [] base = ".." -> "."
               [] OTHER -> ""

\* GetLSPCompletionKind: the completion kind of a tag kind; a tag kind
\* without a kind of its own is the generic Text kind
GetLSPCompletionKind(kind) ==
    CASE kind = "method" -> "Method"
      [] kind = "function" -> "Function"
      [] kind = "struct" -> "Struct"
      [] kind = "variable" -> "Variable"
      [] OTHER -> "Text"

\* The walk of getCurrentWord to the left of the cursor (0-based offsets)
RECURSIVE wordStart(_, _)
wordStart(runes, start) ==
    IF start > 0 /\ isIdentifierChar(runes[start])
    THEN wordStart(runes, start - 1)
    ELSE start

\* The walk of getCurrentWord to the right of the cursor
RECURSIVE wordEnd(_, _)
wordEnd(runes, end) ==
    IF end < Len(runes) /\ isIdentifierChar(runes[end + 1])
    THEN wordEnd(runes, end + 1)
    ELSE end

\* getCurrentWord on the loaded lines: "ok" with the word, "err", or
\* "panic" for an index out of range (a negative line or character)
currentWord(lines, line, character) ==
    LET Out(kind, word) == [kind |-> kind, word |-> word]
    IN  IF line >= Len(lines) THEN Out("err", <<>>)
        ELSE IF line < 0 THEN Out("panic", <<>>)
        ELSE LET runes == lines[line + 1]
             IN  IF character > Len(runes) THEN Out("err", <<>>)
                 ELSE IF character < 0 THEN Out("panic", <<>>)
                 ELSE LET start == wordStart(runes, character)
                          end == wordEnd(runes, character)
                      IN  IF start = end THEN Out("err", <<>>)
                          ELSE Out("ok", SubSeq(runes, start + 1, end))

\* The text of the workspace files as readFileLines finds it
FileLines(path) ==
    IF path \in {<<"a.go">>, <<"b.py">>}
    THEN [ok |-> TRUE, lines |-> << <<"x">> >>]
    ELSE IF path = <<"e.go">>
         THEN [ok |-> TRUE, lines |-> << <<"H", "i", " ", "x", " ", "H", "o">> >>]
         ELSE [ok |-> FALSE, lines |-> <<>>]

\* GetOrLoadFileContent: the cached lines, or the lines read from the file,
\* which are cached
GetOrLoadFileContent(c, path) ==
    IF path \in DOMAIN c THEN [ok |-> TRUE, lines |-> c[path], cache |-> c]
    ELSE IF FileLines(path).ok
         THEN [ok |-> TRUE, lines |-> FileLines(path).lines,
               cache |-> CachePut(c, path, FileLines(path).lines)]
         ELSE [ok |-> FALSE, lines |-> <<>>, cache |-> c]

CompletionItem(entry) ==
    [label |-> entry.name, kind |-> GetLSPCompletionKind(entry.kind),
     path |-> entry.path, line |-> entry.line]

\* Mutant: after the trigger the extension of the entry is not compared
includeEntryAnyExt(entry, isAfterDot, currentFileExt, root) ==
    LET kind == GetLSPCompletionKind(entry.kind)
        entryFileExt == Ext(JoinClean(root, P(FALSE, FALSE, entry.path)))
    IN  IF isAfterDot
        THEN kind \in {"Method", "Function"}
        ELSE kind = "Text" \/ entryFileExt = currentFileExt

\* The filter of handleCompletion on an entry whose name is not in
\* seenItems
includeEntry(entry, isAfterDot, currentFileExt, root) ==
    LET kind == GetLSPCompletionKind(entry.kind)
        entryFileExt == Ext(JoinClean(root, P(FALSE, FALSE, entry.path)))
    IN  IF isAfterDot
        THEN kind \in {"Method", "Function"} /\ entryFileExt = currentFileExt
        ELSE kind = "Text" \/ entryFileExt = currentFileExt

\* Mutant: seenItems is not consulted
RECURSIVE completionItemsUnseen(_, _, _, _, _, _)
completionItemsUnseen(entries, word, isAfterDot, currentFileExt, root, items) ==
    IF entries = <<>> THEN items
    ELSE LET entry == Head(entries)
             take == /\ HasPrefix(ToLower(Runes(entry.name)), ToLower(word))
                     /\ includeEntry(entry, isAfterDot, currentFileExt, root)
         IN  completionItemsUnseen(Tail(entries), word, isAfterDot, currentFileExt,
                                   root,
                                   IF take THEN Append(items, CompletionItem(entry))
                                   ELSE items)

\* The loop of handleCompletion over the index; seenItems holds the labels
\* of items
RECURSIVE completionItems(_, _, _, _, _, _)
completionItems(entries, word, isAfterDot, currentFileExt, root, items) ==
    IF entries = <<>> THEN items
    ELSE LET entry == Head(entries)
             seen == \E k \in DOMAIN items : items[k].label = entry.name
             take == /\ HasPrefix(ToLower(Runes(entry.name)), ToLower(word))
                     /\ ~seen
                     /\ includeEntry(entry, isAfterDot, currentFileExt, root)
         IN  completionItems(Tail(entries), word, isAfterDot, currentFileExt, root,
                             IF take THEN Append(items, CompletionItem(entry))
                             ELSE items)

\* Mutant: a list without items is marked incomplete
CompletionListIncomplete(items, null) ==
    [isIncomplete |-> items = <<>>, items |-> items, null |-> null]

\* CompletionList; null tells a nil Items slice, which is written as null
CompletionList(items, null) ==
    [isIncomplete |-> FALSE, items |-> items, null |-> null]

\* handleCompletion up to the call of getCurrentWord: the params are
\* decoded, the document is looked up in the cache and the character
\* before the cursor is tested
handleCompletion(i) ==
    /\ Handling(i, "textDocument/completion")
    /\ LET t == tasks[i]
           rel == toRootRelativePath(rootPath, t.params.uri)
           ok == rel.segs \in DOMAIN cache
           line == t.params.line
           character == t.params.character
       IN  IF ~t.params.ok
           THEN /\ sendErrorData(i, ErrInvalidParams, "Invalid params")
                /\ Return(i, "passed")
                /\ UNCHANGED <<proc, nread, initialized, rootPath, tagEntries, cache,
                               env, rescans>>
           ELSE IF ~rel.ok
           THEN /\ sendErrorData(i, ErrInternal, "path outside root")
                /\ Return(i, "passed")
                /\ UNCHANGED <<proc, nread, initialized, rootPath, tagEntries, cache,
                               env, rescans>>
           ELSE IF ~ok \/ line >= Len(cache[rel.segs])
           THEN /\ sendErrorData(i, ErrInternal, "Line out of range")
                /\ Return(i, "passed")
                /\ UNCHANGED <<proc, nread, initialized, rootPath, tagEntries, cache,
                               env, rescans>>
           ELSE IF line < 0
           THEN Halt("crashed")
           ELSE LET runes == cache[rel.segs][line + 1]
                    isAfterDot == /\ character > 0
                                  /\ character - 1 < Len(runes)
                                  /\ runes[character] = "."
                IN  /\ tasks' = [tasks EXCEPT
                                    ![i].pc = "word", ![i].guard = "passed",
                                    ![i].path = rel.segs,
                                    ![i].local = [isAfterDot |-> isAfterDot, word |-> <<>>]]
                    /\ UNCHANGED <<proc, nread, initialized, rootPath, tagEntries,
                                   cache, output, env, rescans>>

\* handleCompletion from the call of getCurrentWord to the loop over the
\* index
getCurrentWord(i) ==
    /\ Running(i) /\ tasks[i].pc = "word"
    /\ LET t == tasks[i]
           load == GetOrLoadFileContent(cache, t.path)
           w == IF load.ok
                THEN currentWord(load.lines, t.params.line, t.params.character)
                ELSE [kind |-> "err", word |-> <<>>]
       IN  IF w.kind = "panic"
           THEN Halt("crashed")
           ELSE /\ cache' = load.cache
                /\ IF w.kind = "err" /\ ~t.local.isAfterDot
                   THEN /\ sendResultOf(i, CompletionList(<<>>, FALSE))
                        /\ Return(i, "passed")
                   ELSE /\ tasks' = [tasks EXCEPT ![i].pc = "items",
                                                   ![i].local.word = w.word]
                        /\ UNCHANGED output
                /\ UNCHANGED <<proc, nread, initialized, rootPath, tagEntries, env,
                               rescans>>

\* handleCompletion from the loop over the index to its end
completionRespond(i) ==
    /\ Running(i) /\ tasks[i].pc = "items"
    /\ LET t == tasks[i]
           items == completionItems(tagEntries, t.local.word, t.local.isAfterDot,
                                    Ext(P(FALSE, FALSE, t.path)), rootPath, <<>>)
       IN  sendResultOf(i, CompletionList(items, items = <<>>))
    /\ Return(i, "passed")
    /\ UNCHANGED <<proc, nread, initialized, rootPath, tagEntries, cache, env, rescans>>

\* ------------------------------------------- didChange and didClose
\* DidChangeTextDocumentParams: the document and the texts of its
\* contentChanges
ChangeParams(uri, changes) ==
    [ok |-> TRUE, uri |-> uri, text |-> <<>>, changes |-> changes]

handleDidChange(i) ==
    /\ Handling(i, "textDocument/didChange")
    /\ LET t == tasks[i]
           rel == toRootRelativePath(rootPath, t.params.uri)
       IN  IF t.params.ok /\ rel.ok /\ Len(t.params.changes) > 0
           THEN cache' = CachePut(cache, rel.segs, SplitLines(t.params.changes[1], <<>>))
           ELSE UNCHANGED cache
    /\ Return(i, "passed")
    /\ UNCHANGED <<proc, nread, initialized, rootPath, tagEntries, output, env, rescans>>

\* delete(server.cache.content, filePath)
CacheDelete(c, path) == [p \in DOMAIN c \ {path} |-> c[p]]

handleDidClose(i) ==
    /\ Handling(i, "textDocument/didClose")
    /\ LET t == tasks[i]
           rel == toRootRelativePath(rootPath, t.params.uri)
       IN  IF t.params.ok /\ rel.ok
           THEN cache' = CacheDelete(cache, rel.segs)
           ELSE UNCHANGED cache
    /\ Return(i, "passed")
    /\ UNCHANGED <<proc, nread, initialized, rootPath, tagEntries, output, env, rescans>>

\* ------------------------------------------ definition and documentSymbol
\* relativePathToAbsoluteURI
relativePathToAbsoluteURI(root, rel) ==
    IF HasDotDotPrefix(rel) THEN [ok |-> FALSE, uri |-> NoRoot]
    ELSE [ok |-> TRUE,
          uri |-> [JoinClean(root, P(FALSE, FALSE, rel)) EXCEPT !.uri = TRUE]]

\* strings.Index: the 0-based offset of the first occurrence, or -1
\* The bytes of a rune in a Go string (UTF-8)
RuneLen(r) == IF r = "é" THEN 2 ELSE 1

RECURSIVE ByteLen(_)
ByteLen(runes) ==
    IF runes = <<>> THEN 0 ELSE RuneLen(Head(runes)) + ByteLen(Tail(runes))

\* strings.Index: the byte offset of the first occurrence of sub, or -1
Index(runes, sub) ==
    LET at == {k \in 0..(Len(runes) - Len(sub)) :
                  SubSeq(runes, k + 1, k + Len(sub)) = sub}
    IN  IF at = {} THEN -1
        ELSE ByteLen(SubSeq(runes, 1, CHOOSE k \in at : \A m \in at : k <= m))

Range(startLine, startChar, endLine, endChar) ==
    [start |-> [line |-> startLine, character |-> startChar],
     end |-> [line |-> endLine, character |-> endChar]]

findSymbolRangeInFile(lines, symbolName, lineNumber) ==
    LET lineIdx == lineNumber - 1
    IN  IF lineIdx < 0 \/ lineIdx >= Len(lines)
        THEN Range(lineIdx, 0, lineIdx, 0)
        ELSE LET lineContent == lines[lineIdx + 1]
                 startChar == Index(lineContent, Runes(symbolName))
             IN  IF startChar = -1
                 THEN Range(lineIdx, 0, lineIdx, Len(lineContent))
                 ELSE Range(lineIdx, startChar, lineIdx,
                            startChar + Len(Runes(symbolName)))

\* GetLSPSymbolKind: the symbol kind of a tag kind, or an error for a tag
\* kind without one
GetLSPSymbolKind(kind) ==
    CASE kind = "method" -> [ok |-> TRUE, kind |-> "Method"]
      [] kind = "function" -> [ok |-> TRUE, kind |-> "Function"]
      [] kind = "struct" -> [ok |-> TRUE, kind |-> "Struct"]
      [] kind = "variable" -> [ok |-> TRUE, kind |-> "Variable"]
      [] OTHER -> [ok |-> FALSE, kind |-> ""]

Location(uri, range) == [uri |-> uri, range |-> range]

\* The loop of handleDefinition over the index: the locations found and
\* the cache with the files the loop has loaded
RECURSIVE definitionLocations(_, _, _, _, _)
definitionLocations(entries, symbol, root, c, locations) ==
    IF entries = <<>> THEN [locations |-> locations, cache |-> c]
    ELSE LET entry == Head(entries)
             uri == relativePathToAbsoluteURI(root, entry.path)
             load == GetOrLoadFileContent(c, entry.path)
         IN  IF Runes(entry.name) # symbol \/ ~uri.ok
             THEN definitionLocations(Tail(entries), symbol, root, c, locations)
             ELSE IF ~load.ok
             THEN definitionLocations(Tail(entries), symbol, root, c, locations)
             ELSE definitionLocations(
                      Tail(entries), symbol, root, load.cache,
                      Append(locations,
                             Location(uri.uri,
                                      findSymbolRangeInFile(load.lines, entry.name,
                                                            entry.line))))

\* The result of handleDefinition: null, one Location or a list of them
DefinitionResult(locations) ==
    [shape |-> IF Len(locations) = 0 THEN "null"
               ELSE IF Len(locations) = 1 THEN "one" ELSE "many",
     locations |-> locations]

\* handleDefinition up to server.mutex.Lock(): the params are decoded and
\* the word at the cursor is read
handleDefinition(i) ==
    /\ Handling(i, "textDocument/definition")
    /\ LET t == tasks[i]
           rel == toRootRelativePath(rootPath, t.params.uri)
           load == GetOrLoadFileContent(cache, rel.segs)
           w == IF load.ok
                THEN currentWord(load.lines, t.params.line, t.params.character)
                ELSE [kind |-> "err", word |-> <<>>]
       IN  IF ~t.params.ok
           THEN /\ sendErrorData(i, ErrInvalidParams, "Invalid params")
                /\ Return(i, "passed")
                /\ UNCHANGED <<proc, nread, initialized, rootPath, tagEntries, cache,
                               env, rescans>>
           ELSE IF ~rel.ok
           THEN /\ sendErrorData(i, ErrInternal, "path outside root")
                /\ Return(i, "passed")
                /\ UNCHANGED <<proc, nread, initialized, rootPath, tagEntries, cache,
                               env, rescans>>
           ELSE IF w.kind = "panic"
           THEN Halt("crashed")
           ELSE /\ cache' = load.cache
                /\ IF w.kind = "err"
                   THEN /\ sendResultOf(i, DefinitionResult(<<>>))
                        /\ Return(i, "passed")
                   ELSE /\ tasks' = [tasks EXCEPT ![i].pc = "locate",
                                                   ![i].guard = "passed",
                                                   ![i].local = [symbol |-> w.word]]
                        /\ UNCHANGED output
                /\ UNCHANGED <<proc, nread, initialized, rootPath, tagEntries, env,
                               rescans>>

\* handleDefinition under server.mutex
definitionRespond(i) ==
    /\ Running(i) /\ tasks[i].pc = "locate"
    /\ LET found == definitionLocations(tagEntries, tasks[i].local.symbol, rootPath,
                                        cache, <<>>)
       IN  /\ cache' = found.cache
           /\ sendResultOf(i, DefinitionResult(found.locations))
    /\ Return(i, "passed")
    /\ UNCHANGED <<proc, nread, initialized, rootPath, tagEntries, env, rescans>>

SymbolInformation(entry, kind, uri, range) ==
    [name |-> entry.name, kind |-> kind, location |-> Location(uri, range)]

\* The loop of handleDocumentSymbol over the index
RECURSIVE documentSymbols(_, _, _, _, _)
documentSymbols(entries, filePath, root, c, symbols) ==
    IF entries = <<>> THEN [symbols |-> symbols, cache |-> c]
    ELSE LET entry == Head(entries)
             kind == GetLSPSymbolKind(entry.kind)
             uri == relativePathToAbsoluteURI(root, entry.path)
             load == GetOrLoadFileContent(c, entry.path)
         IN  IF entry.path # filePath \/ ~kind.ok \/ ~uri.ok
             THEN documentSymbols(Tail(entries), filePath, root, c, symbols)
             ELSE IF ~load.ok
             THEN documentSymbols(Tail(entries), filePath, root, c, symbols)
             ELSE documentSymbols(
                      Tail(entries), filePath, root, load.cache,
                      Append(symbols,
                             SymbolInformation(
                                 entry, kind.kind, uri.uri,
                                 findSymbolRangeInFile(load.lines, entry.name,
                                                       entry.line))))

\* Mutant: the names are compared without regard to case
RECURSIVE workspaceSymbolsFold(_, _, _, _, _)
workspaceSymbolsFold(entries, query, root, c, symbols) ==
    IF entries = <<>> THEN [symbols |-> symbols, cache |-> c]
    ELSE LET entry == Head(entries)
             kind == GetLSPSymbolKind(entry.kind)
             uri == relativePathToAbsoluteURI(root, entry.path)
             load == GetOrLoadFileContent(c, entry.path)
         IN  IF (query # "" /\ ToLower(Runes(entry.name)) # ToLower(Runes(query)))
                \/ ~kind.ok \/ ~uri.ok
             THEN workspaceSymbolsFold(Tail(entries), query, root, c, symbols)
             ELSE IF ~load.ok
             THEN workspaceSymbolsFold(Tail(entries), query, root, c, symbols)
             ELSE workspaceSymbolsFold(
                      Tail(entries), query, root, load.cache,
                      Append(symbols,
                             SymbolInformation(
                                 entry, kind.kind, uri.uri,
                                 findSymbolRangeInFile(load.lines, entry.name,
                                                       entry.line))))

\* The loop of handleWorkspaceSymbol over the index
RECURSIVE workspaceSymbols(_, _, _, _, _)
workspaceSymbols(entries, query, root, c, symbols) ==
    IF entries = <<>> THEN [symbols |-> symbols, cache |-> c]
    ELSE LET entry == Head(entries)
             kind == GetLSPSymbolKind(entry.kind)
             uri == relativePathToAbsoluteURI(root, entry.path)
             load == GetOrLoadFileContent(c, entry.path)
         IN  IF (query # "" /\ entry.name # query) \/ ~kind.ok \/ ~uri.ok
             THEN workspaceSymbols(Tail(entries), query, root, c, symbols)
             ELSE IF ~load.ok
             THEN workspaceSymbols(Tail(entries), query, root, c, symbols)
             ELSE workspaceSymbols(
                      Tail(entries), query, root, load.cache,
                      Append(symbols,
                             SymbolInformation(
                                 entry, kind.kind, uri.uri,
                                 findSymbolRangeInFile(load.lines, entry.name,
                                                       entry.line))))

handleWorkspaceSymbol(i) ==
    /\ Handling(i, "workspace/symbol")
    /\ LET t == tasks[i]
           found == workspaceSymbols(tagEntries, t.params.query, rootPath, cache, <<>>)
       IN  IF ~t.params.ok
           THEN /\ sendErrorData(i, ErrInvalidParams, "Invalid params")
                /\ UNCHANGED cache
           ELSE /\ cache' = found.cache
                /\ sendResultOf(i, [symbols |-> found.symbols,
                                    null |-> found.symbols = <<>>])
    /\ Return(i, "passed")
    /\ UNCHANGED <<proc, nread, initialized, rootPath, tagEntries, env, rescans>>

handleDocumentSymbol(i) ==
    /\ Handling(i, "textDocument/documentSymbol")
    /\ LET t == tasks[i]
           rel == toRootRelativePath(rootPath, t.params.uri)
           found == documentSymbols(tagEntries, rel.segs, rootPath, cache, <<>>)
       IN  IF ~t.params.ok
           THEN /\ sendErrorData(i, ErrInvalidParams, "Invalid params")
                /\ UNCHANGED cache
           ELSE IF ~rel.ok
           THEN /\ sendErrorData(i, ErrInternal, "path outside root")
                /\ UNCHANGED cache
           ELSE /\ cache' = found.cache
                /\ sendResultOf(i, [symbols |-> found.symbols,
                                    null |-> found.symbols = <<>>])
    /\ Return(i, "passed")
    /\ UNCHANGED <<proc, nread, initialized, rootPath, tagEntries, env, rescans>>

\* ------------------------------------------------------------------- spec
Next ==
    \/ \E f \in Frames : ServeDispatch(f)
    \/ \E f \in Frames : ServeMalformed(f)
    \/ \E f \in Frames : ServePanic(f)
    \/ \E f \in Frames : ServeEOF(f)
    \/ \E i \in TaskIds : RejectNotInitialized(i)
    \/ \E i \in TaskIds : MethodNotFound(i)
    \/ \E i \in TaskIds : NoOp(i)
    \/ \E i \in TaskIds : handleShutdown(i)
    \/ \E i \in TaskIds : handleExit(i)
    \/ \E i \in TaskIds : handleInitialize(i)
    \/ \E i \in TaskIds : scanWorkspace(i)
    \/ \E i \in TaskIds, k \in ChunkIds, ok \in BOOLEAN : processTagsOutput(i, k, ok)
    \/ \E i \in TaskIds : initializeRespond(i)
    \/ \E i \in TaskIds : initializeDone(i)
    \/ \E i \in TaskIds : handleDidOpen(i)
    \/ \E i \in TaskIds : handleDidSave(i)
    \/ \E i \in TaskIds, ok \in BOOLEAN : scanSingleFileTag(i, ok)

Spec == Init /\ [][Next]_vars

\* Every indexer invocation terminates and a goroutine that can run does
FairSpec ==
    /\ Init
    /\ [][Next]_vars
    /\ \A i \in TaskIds :
          /\ WF_vars(\E k \in ChunkIds, ok \in BOOLEAN : processTagsOutput(i, k, ok))
          /\ WF_vars(initializeRespond(i))

TypeOK ==
    /\ proc \in {"up", "exit", "eof", "crashed"}
    /\ nread \in 0..MaxMsgs
    /\ Len(tasks) <= nread
    /\ initialized \in BOOLEAN


\* ---------------------------------------------------------------- sessions
\* An initialized server in the middle of a session: the index of an
\* earlier scan of a workspace with sources in several languages, and two
\* documents the editor has opened
SessionIndex ==
    << TagEntry("Hi", <<"b.py">>, "struct", 1),
       TagEntry("Hi", <<"a.go">>, "function", 2),
       TagEntry("Hi", <<"a.go">>, "method", 3),
       TagEntry("hi", <<"c.go">>, "struct", 4),
       TagEntry("Ho", <<"d.md">>, "heading", 5),
       TagEntry("x", <<"b.py">>, "function", 6) >>

\* The text "hi.H\n. " of both opened documents
SessionLines == << <<"h", "i", ".", "H">>, <<".", " ">> >>

DocPy == P(TRUE, TRUE, <<"ws", "b.py">>)       \* file:///ws/b.py
DocClosed == P(TRUE, TRUE, <<"ws", "c.go">>)   \* file:///ws/c.go, not opened

SessionCache == CachePut(CachePut(<<>>, <<"a.go">>, SessionLines), <<"b.py">>, SessionLines)

SessionInit ==
    /\ proc = "up"
    /\ nread = 0
    /\ tasks = <<>>
    /\ initialized = TRUE
    /\ rootPath = RootDir
    /\ tagEntries = SessionIndex
    /\ cache = SessionCache
    /\ output = [w \in 0..MaxMsgs |-> <<>>]
    /\ rescans = 0
    /\ probe = NoProbe
    /\ tagfilePath = NoRoot
    /\ disk = {}
    /\ listFails = FALSE

\* The cursor positions of the completion requests: <<line, character>>
CursorsInside ==
    {<<0, c>> : c \in -1..5} \cup {<<1, c>> : c \in 0..2} \cup {<<2, 0>>, <<-1, 0>>}

CompletionFrames ==
    {Frame("crlf", "ok", "json",
           Req("textDocument/completion", "int", PositionParams(DocInside, c[1], c[2]))) :
        c \in CursorsInside}
    \cup {Frame("crlf", "ok", "json",
                Req("textDocument/completion", "int", PositionParams(DocPy, c[1], c[2]))) :
             c \in {<<0, 2>>, <<0, 3>>, <<1, 1>>}}
    \cup {Frame("crlf", "ok", "json", Req("textDocument/completion", id, p)) :
             id \in {"absent", "int"},
             p \in {PositionParams(DocClosed, 0, 0), PositionParams(DocOutside, 0, 0),
                    BadParams}}

CompletionNext ==
    \/ \E f \in CompletionFrames : ServeDispatch(f)
    \/ \E i \in TaskIds : handleCompletion(i)
    \/ \E i \in TaskIds : getCurrentWord(i)
    \/ \E i \in TaskIds : completionRespond(i)

CompletionSpec == SessionInit /\ [][CompletionNext]_vars

\* The documents of the document requests: a.go as a file URI and b.py
\* as a path relative to the root, and x.go next to the root as
\*   file:///ws/../x.go, /etc/x.go, ../x.go and file://d/../../x.go
DocRelative == P(FALSE, FALSE, <<"b.py">>)
DocsInside == {DocInside, DocRelative}
DocsOutside ==
    { DocOutside,
      P(FALSE, TRUE, <<"etc", "x.go">>),
      P(FALSE, FALSE, <<"..", "x.go">>),
      P(TRUE, FALSE, <<"d", "..", "..", "x.go">>) }

DocNotifications ==
    {"textDocument/didOpen", "textDocument/didChange", "textDocument/didClose",
     "textDocument/didSave"}
DocRequests ==
    {"textDocument/completion", "textDocument/definition",
     "textDocument/documentSymbol"}

\* The params of a call of the method for the document
DocParams(method, d) ==
    CASE method = "textDocument/didOpen" -> Params(d, DocText)
      [] method = "textDocument/didChange" -> ChangeParams(d, <<DocText>>)
      [] method \in {"textDocument/completion", "textDocument/definition"} ->
            PositionParams(d, 0, 1)
      [] OTHER -> Params(d, <<>>)

DocFrames ==
    {Frame("crlf", "ok", "json", Req(m, "absent", DocParams(m, d))) :
        m \in DocNotifications, d \in DocsInside \cup DocsOutside}
    \cup {Frame("crlf", "ok", "json", Req(m, "int", DocParams(m, d))) :
             m \in DocRequests, d \in DocsInside \cup DocsOutside}
    \cup {Frame("crlf", "ok", "json",
                Req("textDocument/didChange", "absent", ChangeParams(DocInside, <<>>)))}

DocNext ==
    \/ \E f \in DocFrames : ServeDispatch(f)
    \/ \E i \in TaskIds : handleDidOpen(i)
    \/ \E i \in TaskIds : handleDidChange(i)
    \/ \E i \in TaskIds : handleDidClose(i)
    \/ \E i \in TaskIds : handleDidSave(i)
    \/ \E i \in TaskIds, ok \in BOOLEAN : scanSingleFileTag(i, ok)
    \/ \E i \in TaskIds : handleCompletion(i)
    \/ \E i \in TaskIds : getCurrentWord(i)
    \/ \E i \in TaskIds : completionRespond(i)
    \/ \E i \in TaskIds : handleDefinition(i)
    \/ \E i \in TaskIds : definitionRespond(i)
    \/ \E i \in TaskIds : handleDocumentSymbol(i)

DocSpec == SessionInit /\ [][DocNext]_vars

\* A session of navigation queries. e.go is on disk and not opened, c.go
\* and d.md are named by the index and are no longer on disk
DocOnDisk == P(TRUE, TRUE, <<"ws", "e.go">>)                \* file:///ws/e.go
DocDetour == P(TRUE, TRUE, <<"ws", "d", "..", "a.go">>)     \* file:///ws/d/../a.go

QueryCalls ==
    {<<"textDocument/definition", PositionParams(DocOnDisk, 0, c)>> : c \in {0, 3, 5, 7}}
    \cup {<<"textDocument/definition", PositionParams(DocInside, c[1], c[2])>> :
             c \in {<<0, 1>>, <<0, 4>>, <<1, 1>>, <<0, -1>>, <<2, 0>>}}
    \cup {<<"textDocument/definition", p>> :
             p \in {PositionParams(DocClosed, 0, 0), PositionParams(DocOutside, 0, 0),
                    BadParams}}
    \cup {<<"workspace/symbol", QueryParams(q)>> : q \in {"", "Hi", "hi", "H", "Ho", "x"}}
    \cup {<<"workspace/symbol", BadParams>>}
    \cup {<<"textDocument/documentSymbol", Params(d, <<>>)>> :
             d \in {DocInside, DocDetour, DocPy, DocRelative, DocClosed, DocOnDisk,
                    DocOutside}}
    \cup {<<"textDocument/documentSymbol", BadParams>>}

QueryFrames == {Frame("crlf", "ok", "json", Req(c[1], "int", c[2])) : c \in QueryCalls}

QueryNext ==
    \/ \E f \in QueryFrames : ServeDispatch(f)
    \/ \E i \in TaskIds : handleDefinition(i)
    \/ \E i \in TaskIds : definitionRespond(i)
    \/ \E i \in TaskIds : handleWorkspaceSymbol(i)
    \/ \E i \in TaskIds : handleDocumentSymbol(i)

QuerySpec == SessionInit /\ [][QueryNext]_vars

\* A session in which documents are saved and the client sends initialize
\* once more
RescanFrames ==
    {Frame("crlf", "ok", "json", Req("textDocument/didSave", "absent", Params(d, <<>>))) :
        d \in {DocInside, DocClosed, DocOutside}}
    \cup {Frame("crlf", "ok", "json", Req("initialize", "int", Params(RootURI, <<>>)))}

RescanNext ==
    \/ \E f \in RescanFrames : ServeDispatch(f)
    \/ \E i \in TaskIds : handleDidSave(i)
    \/ \E i \in TaskIds, ok \in BOOLEAN : scanSingleFileTag(i, ok)
    \/ \E i \in TaskIds : handleInitialize(i)
    \/ \E i \in TaskIds : scanWorkspace(i)
    \/ \E i \in TaskIds, k \in ChunkIds, ok \in BOOLEAN : processTagsOutput(i, k, ok)
    \/ \E i \in TaskIds : initializeRespond(i)
    \/ \E i \in TaskIds : initializeDone(i)

RescanSpec == SessionInit /\ [][RescanNext]_vars


\* ----------------------------------------------------------------- claims
\* The methods that are never turned away before initialization
EarlyMethods == {"initialize", "shutdown", "exit"}

\* The methods handleRequest has a case for
KnownMethods ==
    EarlyMethods \cup
    {"initialized", "textDocument/didOpen", "textDocument/didChange",
     "textDocument/didClose", "textDocument/didSave", "textDocument/completion",
     "textDocument/definition", "workspace/symbol", "textDocument/documentSymbol",
     "$/cancelRequest", "$/setTrace", "$/logTrace"}

\* The id of the request of task i as a response echoes it (null for a
\* message without id)
EchoID(i) ==
    IF tasks[i].id = Null THEN [shape |-> Null, n |-> 0]
    ELSE [shape |-> tasks[i].id, n |-> i]

\* Task i has written exactly one response: an error with the given code
\* that echoes the id of its request
OneError(i, code) ==
    /\ Len(output[i]) = 1
    /\ output[i][1].code = code
    /\ output[i][1].id = EchoID(i)

\* Task i has written exactly one response: a result echoing its id
OneResult(i) ==
    /\ Len(output[i]) = 1
    /\ output[i][1].code = 0
    /\ output[i][1].id = EchoID(i)

\* The step is a step of task i
StepOf(i) == i \in DOMAIN tasks /\ i \in DOMAIN tasks' /\ tasks'[i] # tasks[i]

\* C1: while the server is not initialized, a message whose method is not
\* initialize, shutdown or exit is turned away at once: with an id it gets
\* exactly one error response, code -32002; without an id it gets no
\* response; its step changes neither the tag index nor the file cache.
C1_NotInitializedTurnsAway ==
    /\ [](\A i \in DOMAIN tasks :
            tasks[i].guard = "rejected" =>
                /\ tasks[i].method \notin EarlyMethods
                /\ IF tasks[i].id = Null THEN output[i] = <<>>
                   ELSE OneError(i, -32002))
    /\ [][\A i \in DOMAIN tasks :
            (~initialized /\ tasks[i].method \notin EarlyMethods /\ StepOf(i)) =>
                /\ tasks'[i].pc = "done"
                /\ tasks'[i].guard = "rejected"
                /\ tagEntries' = tagEntries
                /\ cache' = cache]_vars

C1_Witness ==
    \E i, j \in DOMAIN tasks :
        /\ tasks[i].guard = "rejected" /\ tasks[i].id # Null
        /\ OneError(i, -32002)
        /\ tasks[j].guard = "rejected" /\ tasks[j].id = Null
        /\ tasks[j].method = "textDocument/didOpen"
        /\ output[j] = <<>>

\* C2: every malformed frame is answered with an error response, code
\* -32600, the process does not crash and the serve loop reads on: each
\* frame consumed has either been dispatched or been answered.
C2_MalformedFrameAnswered ==
    /\ proc # "crashed"
    /\ proc = "up" => nread = Len(tasks) + Len(output[0])

\* C3: after initialization a message with a method handleRequest has no
\* case for gets exactly one error response, code -32601, when it has an
\* id, and no response when it has none; its step changes no server state.
C3_UnknownMethod ==
    /\ [](\A i \in DOMAIN tasks :
            tasks[i].method \notin KnownMethods =>
                /\ tasks[i].guard = "none" => output[i] = <<>>
                /\ tasks[i].guard = "passed" =>
                      IF tasks[i].id = Null THEN output[i] = <<>>
                      ELSE OneError(i, -32601))
    /\ [][\A i \in DOMAIN tasks :
            (initialized /\ tasks[i].method \notin KnownMethods /\ StepOf(i)) =>
                /\ tasks'[i].pc = "done"
                /\ tasks'[i].guard = "passed"
                /\ UNCHANGED <<tagEntries, cache, initialized, rootPath>>]_vars

C3_Witness ==
    \E i \in DOMAIN tasks :
        /\ initialized
        /\ tasks[i].method = "foo/unknown" /\ tasks[i].id # Null
        /\ tasks[i].guard = "passed" /\ OneError(i, -32601)

\* C4: a message without an id never causes a response, whatever its method.
C4_NotificationNeverAnswered ==
    \A i \in DOMAIN tasks : tasks[i].id = Null => output[i] = <<>>

\* C5: only a request whose id is absent, a string or an integer is
\* dispatched; a frame with an id of any other shape is not dispatched and
\* is answered by the serve loop with an error response, code -32600.
C5_OnlyStringOrIntegerId ==
    /\ \A i \in DOMAIN tasks : tasks[i].id \in {Null, "string", "int"}
    /\ \A k \in DOMAIN output[0] :
          /\ output[0][k].code = -32600
          /\ output[0][k].id = [shape |-> Null, n |-> 0]
    /\ proc = "up" => nread = Len(tasks) + Len(output[0])

C5_Witness ==
    /\ \E k \in DOMAIN output[0] :
          output[0][k].data = "id must be a string or integer"
    /\ \E i \in DOMAIN tasks : tasks[i].id = "string"

\* C6 (as claimed): once a shutdown or an exit message has been handled the
\* process is gone, so no task that handled one is left in a running process.
C6_ShutdownOrExitTerminates ==
    \A i \in DOMAIN tasks :
        tasks[i].method \in {"shutdown", "exit"} => tasks[i].pc = "start"

\* C6 (amended): an exit message ends the process, after which nothing is
\* serviced (a shutdown message does not end it).
C6_ExitTerminates ==
    /\ [](\A i \in DOMAIN tasks : tasks[i].method = "exit" => tasks[i].pc = "start")
    /\ [][proc # "up" => UNCHANGED vars]_vars
    /\ [][\A i \in DOMAIN tasks :
            (tasks[i].method = "exit" /\ (i \notin DOMAIN tasks' \/ tasks'[i] # tasks[i]))
                => proc' # "up"]_vars

C6_Witness ==
    /\ proc = "exit"
    /\ nread = MaxMsgs
    /\ \E i \in 1..MaxMsgs : output[i] # <<>>

\* The first conventional tag file that exists under /ws
FirstConventional ==
    IF <<"ws", "tags">> \in disk THEN <<"ws", "tags">>
    ELSE IF <<"ws", ".tags">> \in disk THEN <<"ws", ".tags">>
         ELSE <<"ws", ".git", "tags">>

ScanChose(t) == t.method = "initialize" /\ t.pc \in {"scanned", "wait", "responded"}

\* C7: a scan uses one policy, the first applicable of explicit tag file,
\* discovered tag file (the first existing of tags, .tags, .git/tags) and
\* live scan: it reads at most one tag file, starts no indexer invocation
\* when it reads one, and with an explicit tag file reads no other file.
C7_OnePolicyInOrder ==
    \A i \in DOMAIN tasks :
        LET t == tasks[i]
        IN  /\ Len(t.parsed) <= 1
            /\ t.parsed # <<>> => t.chunks = <<>>
            /\ ScanChose(t) =>
                  IF tagfilePath # NoRoot
                  THEN t.parsed = << <<"ws", "custom.tags">> >> /\ t.chunks = <<>>
                  ELSE IF disk \cap TagfileCandidates # {}
                       THEN t.parsed = <<FirstConventional>> /\ t.chunks = <<>>
                       ELSE t.parsed = <<>> /\ t.chunks # <<>>

C7_Witness ==
    \E i \in DOMAIN tasks :
        /\ tasks[i].pc = "responded"
        /\ tasks[i].parsed = << <<"ws", ".tags">> >>
        /\ <<"ws", ".git", "tags">> \in disk
        /\ tagEntries # <<>>

ExplicitMissing == tagfilePath # NoRoot /\ <<"ws", "custom.tags">> \notin disk

\* C8: with an explicit tag file that does not exist, an initialize that
\* reaches the scan is answered with one error, code -32603; no tag file is
\* read and no indexer started; the index stays empty and the server stays
\* uninitialized, so a request with another method is answered -32002.
C8_MissingTagfileFails ==
    ExplicitMissing =>
        /\ ~initialized
        /\ tagEntries = <<>>
        /\ \A i \in DOMAIN tasks :
              LET t == tasks[i]
              IN  /\ t.parsed = <<>> /\ t.chunks = <<>>
                  /\ (t.method = "initialize" /\ t.params.ok) =>
                        /\ t.pc \in {"start", "scan", "done"}
                        /\ t.pc = "done" => OneError(i, -32603)
                        /\ t.pc # "done" => output[i] = <<>>
                  /\ (t.method \notin EarlyMethods /\ t.pc = "done" /\ t.id # Null) =>
                        OneError(i, -32002)

C8_Witness ==
    /\ ExplicitMissing
    /\ disk \cap TagfileCandidates # {}
    /\ \E i, j \in DOMAIN tasks :
          /\ i < j
          /\ tasks[i].method = "initialize" /\ tasks[i].pc = "done"
          /\ OneError(i, -32603)
          /\ tasks[j].method = "textDocument/didSave" /\ OneError(j, -32002)


AllFinished(t) == \A k \in DOMAIN t.chunks : t.chunks[k].st \in {"ok", "failed"}

\* C9: in a live scan the initialize result is sent, and the server marked
\* initialized, only after every chunk's invocation has finished; and as the
\* invocations terminate, an initialize waiting for them sends its response
\* (as long as the process runs).
C9_RespondsAfterAllChunks ==
    /\ [](\A i \in DOMAIN tasks :
            (tasks[i].method = "initialize" /\ output[i] # <<>>) => AllFinished(tasks[i]))
    /\ [](initialized =>
            \E i \in DOMAIN tasks :
                /\ tasks[i].method = "initialize" /\ tasks[i].pc = "done"
                /\ OneResult(i) /\ AllFinished(tasks[i]))
    /\ \A i \in TaskIds :
          (i \in DOMAIN tasks /\ tasks[i].pc = "wait")
              ~> (proc # "up" \/ (i \in DOMAIN tasks /\ OneResult(i)))

C9_Witness ==
    \E i \in DOMAIN tasks :
        /\ tasks[i].pc = "done" /\ initialized
        /\ Len(tasks[i].chunks) = 2
        /\ tasks[i].chunks[1].st = "ok" /\ tasks[i].chunks[2].st = "failed"
        /\ OneResult(i)

\* The records the indexer yields for each workspace file
RecordsOf(file) ==
    IF file = <<"a.go">>
    THEN {[name |-> "Greeter", path |-> <<"a.go">>, kind |-> "struct", line |-> 3],
          [name |-> "Hello", path |-> <<"a.go">>, kind |-> "method", line |-> 5]}
    ELSE IF file = <<"b.go">>
         THEN {[name |-> "Bee", path |-> <<"b.go">>, kind |-> "function", line |-> 1]}
         ELSE IF file = <<"c.go">>
              THEN {[name |-> "Sea", path |-> <<"c.go">>, kind |-> "function", line |-> 2]}
              ELSE {}

AllRecords == RecordsOf(<<"a.go">>) \cup RecordsOf(<<"b.go">>) \cup RecordsOf(<<"c.go">>)

Occurrences(e, entries) == Cardinality({n \in DOMAIN entries : entries[n] = e})

\* The number of times record e was yielded to a chunk that succeeded
YieldedBySucceeded(e) ==
    Cardinality({c \in (DOMAIN tasks) \X ChunkIds \X (DOMAIN WorkspaceFiles) :
                    /\ c[2] \in DOMAIN tasks[c[1]].chunks
                    /\ tasks[c[1]].chunks[c[2]].st = "ok"
                    /\ c[3] \in DOMAIN tasks[c[1]].chunks[c[2]].files
                    /\ e \in RecordsOf(tasks[c[1]].chunks[c[2]].files[c[3]])})

LiveWorld == tagfilePath = NoRoot /\ disk = {} /\ ~listFails

\* C10: in a live scan a failed invocation does not fail initialize nor
\* touch the other chunks: as long as no file has been rescanned, the index
\* holds every record of every chunk that succeeded, once per success, and
\* nothing else, and an initialize whose scan is done has sent its result.
C10_FailedChunkIsolated ==
    LiveWorld =>
        /\ rescans = 0 =>
              \A e \in AllRecords \cup {tagEntries[n] : n \in DOMAIN tagEntries} :
                  Occurrences(e, tagEntries) = YieldedBySucceeded(e)
        /\ \A i \in DOMAIN tasks :
              tasks[i].chunks # <<>> =>
                  IF tasks[i].pc \in {"responded", "done"}
                  THEN OneResult(i) /\ AllFinished(tasks[i])
                  ELSE tasks[i].pc = "wait" /\ output[i] = <<>>

C10_Witness ==
    \E i \in DOMAIN tasks :
        /\ tasks[i].pc = "responded"
        /\ Len(tasks[i].chunks) = 2
        /\ tasks[i].chunks[1].st = "failed" /\ tasks[i].chunks[2].st = "ok"
        /\ tagEntries = <<[name |-> "Sea", path |-> <<"c.go">>, kind |-> "function", line |-> 2]>>
        /\ OneResult(i)


\* No workspace scan is in progress and no file has been rescanned
ScansSettled ==
    /\ rescans = 0
    /\ \A i \in DOMAIN tasks :
          tasks[i].method = "initialize" => tasks[i].pc \in {"start", "done"}

\* C12: after any sequence of successful initialize calls the index holds
\* the entries of the most recent scan only: it is rebuilt, not added to, so
\* no entry is in it twice.
C12_IndexRebuiltByInitialize ==
    ScansSettled =>
        \A n, m \in DOMAIN tagEntries : tagEntries[n] = tagEntries[m] => n = m

\* A canonical root-relative path inside the root: cleaned (no "." and no
\* ".." segment) and not beginning with ".."
Canonical(segs) ==
    /\ \A k \in DOMAIN segs : segs[k] \notin {".", ".."}
    /\ ~HasDotDotPrefix(segs)

\* A scan of task t has read the tag file .git/tags
ReadGitTags(t) == t.parsed = << <<"ws", ".git", "tags">> >>

\* C13: the path of every entry of the index is a canonical root-relative
\* path inside the root, whatever produced the entry; a record whose path
\* cannot be made canonical is left out and the records after it are kept
\* (.git/tags: Hello is kept, Out dropped; the indexer's output for c.go: Out
\* dropped, Sea kept).
C13_IndexPathsCanonical ==
    /\ \A n \in DOMAIN tagEntries :
          /\ Canonical(tagEntries[n].path)
          /\ tagEntries[n].name # "Out"
    /\ rescans = 0 =>
          /\ \A i \in DOMAIN tasks :
                ReadGitTags(tasks[i]) =>
                    \E n \in DOMAIN tagEntries :
                        tagEntries[n] = TagEntry("Hello", <<"a.go">>, "method", 5)
          /\ \A i \in DOMAIN tasks, k \in ChunkIds :
                (/\ k \in DOMAIN tasks[i].chunks
                 /\ tasks[i].chunks[k].st = "ok"
                 /\ \E f \in DOMAIN tasks[i].chunks[k].files :
                        tasks[i].chunks[k].files[f] = <<"c.go">>) =>
                    \E n \in DOMAIN tagEntries :
                        tagEntries[n] = TagEntry("Sea", <<"c.go">>, "function", 2)

C13_Witness ==
    /\ \E i \in DOMAIN tasks : ReadGitTags(tasks[i]) /\ tasks[i].pc = "done"
    /\ tagEntries = << TagEntry("Hello", <<"a.go">>, "method", 5) >>

\* ------------------------------------------- specifications of functions
\* The fields of the server, which an application of a function to
\* arguments of its own leaves alone
server == <<proc, nread, tasks, initialized, rootPath, tagEntries, cache, output,
            tagfilePath, disk, listFails, rescans>>

\* The server as constructed, in an empty workspace
FunctionInit ==
    /\ proc = "up"
    /\ nread = 0
    /\ tasks = <<>>
    /\ initialized = FALSE
    /\ rootPath = NoRoot
    /\ tagEntries = <<>>
    /\ cache = <<>>
    /\ output = [w \in 0..MaxMsgs |-> <<>>]
    /\ rescans = 0
    /\ tagfilePath = NoRoot
    /\ disk = {}
    /\ listFails = FALSE
    /\ probe = NoProbe

\* The partition of scanWorkspace applied to a list of n files (the files
\* are numbered) and a number of workers
ApplyChunks(n, workers) ==
    /\ probe = NoProbe
    /\ probe' = [fn |-> "ChunksOf",
                 files |-> [k \in 1..n |-> k],
                 workers |-> workers,
                 out |-> ChunksOf([k \in 1..n |-> k], workers)]
    /\ UNCHANGED server

ChunkNext == \E n \in 0..MaxFiles, workers \in 1..MaxWorkers : ApplyChunks(n, workers)

ChunkSpec == FunctionInit /\ [][ChunkNext]_vars

\* The segment names and the roots the paths of PathSpec are made of
SegNames == {"ws", "d", "a.go", ".", "..", "..cfg.go"}

Roots == {RootDir, P(FALSE, TRUE, <<"ws", "d">>)}

RawPaths ==
    {P(uri, abs, segs) :
        uri \in BOOLEAN, abs \in BOOLEAN,
        segs \in UNION {[1..n -> SegNames] : n \in 0..MaxSegs}}

\* The string toRootRelativePath returned, passed as a path again: it is a
\* plain relative path
AsPath(segs) == P(FALSE, FALSE, segs)

\* toRootRelativePath applied to a path, and applied again to its result
ApplyToRootRelativePath(root, raw) ==
    /\ probe = NoProbe
    /\ probe' =
          LET out == toRootRelativePath(root, raw)
          IN  [fn |-> "toRootRelativePath", root |-> root, raw |-> raw, out |-> out,
               again |-> IF out.ok THEN toRootRelativePath(root, AsPath(out.segs))
                         ELSE out]
    /\ UNCHANGED server

PathNext == \E root \in Roots, raw \in RawPaths : ApplyToRootRelativePath(root, raw)

PathSpec == FunctionInit /\ [][PathNext]_vars

\* C15: normalisation is idempotent: for every path that resolves inside
\* the root, normalising the result again gives the same result.
C15_NormalizationIdempotent ==
    (probe.fn = "toRootRelativePath" /\ probe.out.ok) =>
        /\ probe.again.ok
        /\ probe.again.segs = probe.out.segs

C15_Witness ==
    /\ probe.fn = "toRootRelativePath"
    /\ probe.raw = P(TRUE, TRUE, <<"ws", "..", "ws">>)
    /\ probe.root = RootDir
    /\ probe.out = [ok |-> TRUE, segs |-> <<>>]
    /\ probe.again = probe.out

RECURSIVE Flatten(_)
Flatten(seqs) == IF seqs = <<>> THEN <<>> ELSE Head(seqs) \o Flatten(Tail(seqs))

\* C11 (as claimed): the list is cut into chunks whose sizes differ by at
\* most one, and exactly N invocations are started whenever L >= N.
C11_NChunksOfEqualSize ==
    probe.fn = "ChunksOf" =>
        /\ Len(probe.files) >= probe.workers => Len(probe.out) = probe.workers
        /\ \A j, k \in DOMAIN probe.out :
              Len(probe.out[j]) - Len(probe.out[k]) \in {-1, 0, 1}

\* C11 (amended): the list is cut, in order and without loss, into chunks
\* of ceil(L/N) files, the last one possibly shorter; no chunk is empty and
\* there are at most N of them.
C11_CeilingChunks ==
    probe.fn = "ChunksOf" =>
        LET L == Len(probe.files)
            N == probe.workers
            size == (L + N - 1) \div N
            out == probe.out
        IN  /\ Flatten(out) = probe.files
            /\ Len(out) <= N
            /\ \A k \in DOMAIN out : out[k] # <<>> /\ Len(out[k]) <= size
            /\ \A k \in 1..(Len(out) - 1) : Len(out[k]) = size
            /\ L = 0 <=> out = <<>>

C11_Witness ==
    /\ probe.fn = "ChunksOf"
    /\ Len(probe.files) = 5 /\ probe.workers = 4
    /\ Len(probe.out) = 3
    /\ Len(probe.out[3]) = 1

\* ------------------------------------------ documents outside the root (C14)
\* Where a path leads from a directory: ".." steps up, not above the top
RECURSIVE Walk(_, _)
Walk(dir, segs) ==
    IF segs = <<>> THEN dir
    ELSE Walk(CASE Head(segs) = "." -> dir
                [] Head(segs) = ".." ->
                      IF dir = <<>> THEN dir ELSE SubSeq(dir, 1, Len(dir) - 1)
                [] OTHER -> Append(dir, Head(segs)),
              Tail(segs))

\* The path, taken from the root when it is relative, leads to a place
\* that is neither the root nor below it
ResolvesOutside(root, raw) ==
    LET rootDir == Walk(<<>>, root.segs)
        target == Walk(IF raw.abs THEN <<>> ELSE rootDir, raw.segs)
    IN  ~(Len(rootDir) <= Len(target) /\ SubSeq(target, 1, Len(rootDir)) = rootDir)

\* Task i runs its handler in this step, for a document outside the root
HandlesOutside(i) ==
    /\ i \in DOMAIN tasks /\ tasks[i].pc = "start"
    /\ i \in DOMAIN tasks' /\ tasks'[i].pc # "start"
    /\ tasks[i].method \in DocNotifications \cup DocRequests
    /\ tasks[i].params.ok
    /\ ResolvesOutside(rootPath, tasks[i].params.uri)

\* C14: for a document that resolves outside the root, given as a file
\* URI or as a plain path, absolute or relative, toRootRelativePath fails;
\* its didOpen, didChange, didClose and didSave return with the cache and
\* the index as they were and without a response, and its completion,
\* definition and documentSymbol requests are answered with the internal
\* error -32603 and nothing else.
C14_OutsideRootRefused ==
    [][\A i \in TaskIds :
          HandlesOutside(i) =>
              /\ ~toRootRelativePath(rootPath, tasks[i].params.uri).ok
              /\ cache' = cache /\ tagEntries' = tagEntries
              /\ tasks'[i].pc = "done"
              /\ IF tasks[i].method \in DocRequests
                 THEN /\ Len(output'[i]) = Len(output[i]) + 1
                      /\ output'[i][Len(output'[i])].code = -32603
                 ELSE output'[i] = output[i]]_vars

\* x.go outside the root has been opened and a definition in it has been
\* asked for: the request has its internal error, and the cache (which a
\* didOpen of a document inside the root changes) and the index are as
\* they were
C14_Witness ==
    /\ nread = 2 /\ Len(tasks) = 2
    /\ tasks[1].method = "textDocument/didOpen" /\ tasks[1].pc = "done"
    /\ tasks[2].method = "textDocument/definition" /\ tasks[2].pc = "done"
    /\ output[1] = <<>>
    /\ output[2] = <<Framed(ErrorData([shape |-> "int", n |-> 2], ErrInternal,
                                      "path outside root"))>>
    /\ cache = SessionCache
    /\ tagEntries = SessionIndex

\* ------------------------------------------------- single-file rescan (C16)
SelectPath(entries, path) == SelectSeq(entries, LAMBDA e : e.path = path)
OtherPaths(entries, path) == SelectSeq(entries, LAMBDA e : e.path # path)

\* C16: a single-file rescan of p first removes the entries of p and
\* leaves those of every other path as they are, in their order; when its
\* indexer run succeeds and no other scan has put entries of p into the
\* index in the meantime (none runs concurrently), the entries of p are
\* then exactly those of this run, and the entries of every other path
\* are again left as they are, in their order.
C16_RescanReplaces ==
    [][\A i \in TaskIds :
          /\ handleDidSave(i) /\ tasks'[i].pc = "rescan" =>
                /\ SelectPath(tagEntries', tasks'[i].path) = <<>>
                /\ OtherPaths(tagEntries', tasks'[i].path) =
                      OtherPaths(tagEntries, tasks'[i].path)
          /\ scanSingleFileTag(i, TRUE) =>
                /\ OtherPaths(tagEntries', tasks[i].path) =
                      OtherPaths(tagEntries, tasks[i].path)
                /\ SelectPath(tagEntries, tasks[i].path) = <<>> =>
                      SelectPath(tagEntries', tasks[i].path) =
                          decodeTagsOutput(CtagsFileOutput(tasks[i].path), rootPath)]_vars

\* a.go is saved: its function and method Hi are gone, the struct Greeter
\* and the method Hello of the new run stand at the end, the other
\* entries are in their order
C16_Witness ==
    /\ rescans = 1
    /\ \E i \in DOMAIN tasks :
          tasks[i].method = "textDocument/didSave" /\ tasks[i].pc = "done"
    /\ tagEntries =
          << TagEntry("Hi", <<"b.py">>, "struct", 1),
             TagEntry("hi", <<"c.go">>, "struct", 4),
             TagEntry("Ho", <<"d.md">>, "heading", 5),
             TagEntry("x", <<"b.py">>, "function", 6),
             TagEntry("Greeter", <<"a.go">>, "struct", 3),
             TagEntry("Hello", <<"a.go">>, "method", 5) >>

\* ------------------------------------------------- completion (C17 to C20)
\* The request of task i is answered in this step; with a completion list
Answered(i) ==
    /\ i \in DOMAIN tasks
    /\ tasks[i].method = "textDocument/completion"
    /\ Len(output'[i]) = Len(output[i]) + 1

Answer(i) == output'[i][Len(output'[i])]

CompletionAnswered(i) == Answered(i) /\ Answer(i).code = 0

\* The document, the line and the character the request of task i names
CursorDoc(i) == toRootRelativePath(rootPath, tasks[i].params.uri)
CursorRunes(i) == cache[CursorDoc(i).segs][tasks[i].params.line + 1]
CursorChar(i) == tasks[i].params.character

\* The request names a line of an opened document inside the root
CursorOnLine(i) ==
    /\ tasks[i].params.ok
    /\ CursorDoc(i).ok
    /\ CursorDoc(i).segs \in DOMAIN cache
    /\ tasks[i].params.line \in 0..(Len(cache[CursorDoc(i).segs]) - 1)
    /\ CursorChar(i) >= 0

\* The character immediately before the cursor is the trigger
AfterTrigger(i) ==
    /\ CursorChar(i) \in 1..Len(CursorRunes(i))
    /\ CursorRunes(i)[CursorChar(i)] = "."

\* The offsets at which the run of identifier characters around the cursor
\* begins and ends
RunStart(runes, c) ==
    CHOOSE s \in 0..c :
        /\ \A k \in (s + 1)..c : runes[k] \in IdentChars
        /\ s = 0 \/ runes[s] \notin IdentChars

RunEnd(runes, c) ==
    CHOOSE e \in c..Len(runes) :
        /\ \A k \in (c + 1)..e : runes[k] \in IdentChars
        /\ e = Len(runes) \/ runes[e + 1] \notin IdentChars

\* The run of identifier characters that ends at the cursor
PrefixAtCursor(i) ==
    IF CursorChar(i) > Len(CursorRunes(i)) THEN <<>>
    ELSE SubSeq(CursorRunes(i), RunStart(CursorRunes(i), CursorChar(i)) + 1, CursorChar(i))

\* The word at the cursor: the whole run of identifier characters that
\* the cursor touches
WordAtCursor(i) ==
    IF CursorChar(i) > Len(CursorRunes(i)) THEN <<>>
    ELSE SubSeq(CursorRunes(i), RunStart(CursorRunes(i), CursorChar(i)) + 1,
                RunEnd(CursorRunes(i), CursorChar(i)))

\* The filtering policy on an entry of the index
Qualifies(entry, afterTrigger, ext) ==
    LET kind == GetLSPCompletionKind(entry.kind)
        sameExt == Ext(P(FALSE, FALSE, entry.path)) = ext
    IN  IF afterTrigger THEN kind \in {"Method", "Function"} /\ sameExt
        ELSE kind = "Text" \/ sameExt

\* The names of the entries that pass the policy and start with the word,
\* compared case-insensitively
Candidates(i, word) ==
    {tagEntries[n].name : n \in
        {m \in DOMAIN tagEntries :
            /\ HasPrefix(ToLower(Runes(tagEntries[m].name)), ToLower(word))
            /\ Qualifies(tagEntries[m], AfterTrigger(i),
                         Ext(P(FALSE, FALSE, CursorDoc(i).segs)))}}

Labels(items) == {items[k].label : k \in DOMAIN items}

\* C17: every item of a completion list is made from an entry of the
\* index that passes the filtering policy: after the trigger `.` a method
\* or function of a file with the extension of the document, otherwise an
\* entry of the text kind or of a file with the extension of the document.
C17_CompletionFilter ==
    [][\A i \in TaskIds :
          CompletionAnswered(i) =>
              \A k \in DOMAIN Answer(i).result.items :
                  \E n \in DOMAIN tagEntries :
                      /\ CompletionItem(tagEntries[n]) = Answer(i).result.items[k]
                      /\ Qualifies(tagEntries[n], AfterTrigger(i),
                                   Ext(P(FALSE, FALSE, CursorDoc(i).segs)))]_vars

\* After the trigger in a.go only the function Hi of a.go is offered (the
\* struct hi of c.go and the heading Ho are not), and a cursor that is not
\* after the trigger is offered the heading Ho of d.md as well
C17_Witness ==
    /\ \E w \in TaskIds :
          /\ Len(output[w]) = 1 /\ output[w][1].code = 0
          /\ output[w][1].result.items =
                << CompletionItem(TagEntry("Hi", <<"a.go">>, "function", 2)) >>
    /\ \E w \in TaskIds :
          /\ Len(output[w]) = 1 /\ output[w][1].code = 0
          /\ Labels(output[w][1].result.items) = {"Hi", "hi", "Ho"}

\* C18: the prefix of a completion is the run of identifier characters
\* that ends at the cursor, and the names offered are exactly those of the
\* entries that pass the filtering policy and start with that prefix,
\* compared case-insensitively (a cursor with an empty prefix that is not
\* after the trigger is C20's case).
C18_PrefixEndsAtCursor ==
    [][\A i \in TaskIds :
          /\ CompletionAnswered(i)
          /\ PrefixAtCursor(i) # <<>> \/ AfterTrigger(i)
          => Labels(Answer(i).result.items) = Candidates(i, PrefixAtCursor(i))]_vars

\* C19: no label appears twice in a completion list, and a name is in the
\* list if and only if an entry of the index with that name starts with
\* the word of the request and passes the filtering policy, wherever that
\* entry stands in the index.
C19_DeduplicatedByName ==
    [][\A i \in TaskIds :
          /\ CompletionAnswered(i)
          /\ WordAtCursor(i) # <<>> \/ AfterTrigger(i)
          => LET items == Answer(i).result.items
             IN  /\ \A j, k \in DOMAIN items : items[j].label = items[k].label => j = k
                 /\ Labels(items) = Candidates(i, WordAtCursor(i))]_vars

\* The word "hi" in a.go: the first entry named Hi is a struct of b.py and
\* does not qualify, the second one is offered and the third one is not
\* offered again
C19_Witness ==
    \E w \in TaskIds :
        /\ Len(output[w]) = 1 /\ output[w][1].code = 0
        /\ output[w][1].result.items =
              << CompletionItem(TagEntry("Hi", <<"a.go">>, "function", 2)),
                 CompletionItem(TagEntry("hi", <<"c.go">>, "struct", 4)) >>

\* No identifier character stands on either side of the cursor
NoWordAtCursor(i) == WordAtCursor(i) = <<>>

\* C20: every completion list has isIncomplete = false; a cursor on a line
\* of an opened document with no word at it and not after the trigger is
\* answered with the empty list of items and not with an error, and one
\* with no word at it but after the trigger with the names of every entry
\* that passes the filtering policy.
C20_CompleteList ==
    [][\A i \in TaskIds :
          /\ CompletionAnswered(i) => Answer(i).result.isIncomplete = FALSE
          /\ Answered(i) /\ CursorOnLine(i) /\ NoWordAtCursor(i) =>
                /\ Answer(i).code = 0
                /\ IF AfterTrigger(i)
                   THEN Labels(Answer(i).result.items) = Candidates(i, <<>>)
                   ELSE /\ Answer(i).result.items = <<>>
                        /\ ~Answer(i).result.null]_vars

\* One request is answered with the empty list, and the cursor after the
\* lone `.` of b.py with the only function of a .py file
C20_Witness ==
    /\ \E w \in TaskIds :
          /\ Len(output[w]) = 1 /\ output[w][1].code = 0
          /\ output[w][1].result = CompletionList(<<>>, FALSE)
    /\ \E w \in TaskIds :
          /\ Len(output[w]) = 1 /\ output[w][1].code = 0
          /\ output[w][1].result.items =
                << CompletionItem(TagEntry("x", <<"b.py">>, "function", 6)) >>

\* ------------------------------------------------ navigation (C21 to C23)
\* The request of task i for the method is answered with a result in this
\* step
ResultSent(i, method) ==
    /\ i \in DOMAIN tasks
    /\ tasks[i].method = method
    /\ Len(output'[i]) = Len(output[i]) + 1
    /\ Answer(i).code = 0

\* The entries of the index with the name, in index order
Named(word) == SelectSeq(tagEntries, LAMBDA e : Runes(e.name) = word)

\* The file URI of an entry of the index
EntryURI(e) == P(TRUE, TRUE, rootPath.segs \o e.path)

\* C21: a definition request on an identifier is answered by the number of
\* entries of the index with exactly that name: null for none, one
\* location for one, and for more the list of their locations in index
\* order.
C21_DefinitionShape ==
    [][\A i \in TaskIds :
          ResultSent(i, "textDocument/definition") /\ tasks[i].pc = "locate" =>
              LET named == Named(WordAtCursor(i))
                  r == Answer(i).result
              IN  /\ r.shape = IF Len(named) = 0 THEN "null"
                                ELSE IF Len(named) = 1 THEN "one" ELSE "many"
                  /\ Len(r.locations) = Len(named)
                  /\ \A k \in DOMAIN r.locations :
                        r.locations[k].uri = EntryURI(named[k])]_vars

\* The entry can be answered with: its path does not leave the root and
\* the lines of its file are in the cache or can be read
Resolvable(e) ==
    /\ ~(e.path # <<>> /\ e.path[1] \in DotDotNames)
    /\ e.path \in DOMAIN cache \/ FileLines(e.path).ok

\* The kinds of tags that are protocol symbol kinds
HasSymbolKind(e) == GetLSPSymbolKind(e.kind).ok

\* What is compared of a symbol with the entry it is made from
SymbolOf(e) == [name |-> e.name, kind |-> GetLSPSymbolKind(e.kind).kind, uri |-> EntryURI(e)]
SymbolsSent(symbols) ==
    [k \in DOMAIN symbols |->
        [name |-> symbols[k].name, kind |-> symbols[k].kind,
         uri |-> symbols[k].location.uri]]
SymbolsOf(entries) == [k \in DOMAIN entries |-> SymbolOf(entries[k])]

\* C22: a workspace/symbol request is answered with a result that holds,
\* in index order, the resolvable entries with a protocol symbol kind whose
\* name is exactly the query, or all of them when the query is empty; the
\* entries without a protocol symbol kind are left out and the answer is
\* still a result.
C22_WorkspaceSymbolExact ==
    [][\A i \in TaskIds :
          /\ i \in DOMAIN tasks /\ tasks[i].method = "workspace/symbol"
          /\ tasks[i].params.ok
          /\ Len(output'[i]) = Len(output[i]) + 1
          => LET query == tasks[i].params.query
                 expected == SelectSeq(tagEntries,
                                LAMBDA e : /\ query = "" \/ e.name = query
                                           /\ HasSymbolKind(e)
                                           /\ Resolvable(e))
             IN  /\ Answer(i).code = 0
                 /\ SymbolsSent(Answer(i).result.symbols) = SymbolsOf(expected)]_vars

\* The query Hi is answered with the three entries named Hi and not with
\* hi, and the empty query with these and x: hi of the unreadable c.go and
\* the heading Ho are left out
C22_Witness ==
    /\ \E w \in TaskIds :
          /\ Len(output[w]) = 1 /\ output[w][1].code = 0
          /\ "symbols" \in DOMAIN output[w][1].result
          /\ [k \in DOMAIN output[w][1].result.symbols |->
                 output[w][1].result.symbols[k].name] = <<"Hi", "Hi", "Hi">>
    /\ \E w \in TaskIds :
          /\ Len(output[w]) = 1 /\ output[w][1].code = 0
          /\ "symbols" \in DOMAIN output[w][1].result
          /\ [k \in DOMAIN output[w][1].result.symbols |->
                 output[w][1].result.symbols[k].name] = <<"Hi", "Hi", "Hi", "x">>

\* The place of the document below the root, with every . and .. of its
\* path walked
PathBelowRoot(root, raw) ==
    LET rootDir == Walk(<<>>, root.segs)
        target == Walk(IF raw.abs THEN <<>> ELSE rootDir, raw.segs)
    IN  SubSeq(target, Len(rootDir) + 1, Len(target))

\* C23: a documentSymbol request for a document of the root, in whatever
\* form its URI or path is written, is answered with a result that holds,
\* in index order, exactly the entries of the index whose path is the
\* canonical path of the document and whose kind is a protocol symbol
\* kind; entries of other paths are not in it.
C23_DocumentSymbolsOfPath ==
    [][\A i \in TaskIds :
          /\ i \in DOMAIN tasks /\ tasks[i].method = "textDocument/documentSymbol"
          /\ tasks[i].params.ok
          /\ ~ResolvesOutside(rootPath, tasks[i].params.uri)
          /\ Len(output'[i]) = Len(output[i]) + 1
          => LET path == PathBelowRoot(rootPath, tasks[i].params.uri)
                 expected == SelectSeq(tagEntries,
                                LAMBDA e : e.path = path /\ HasSymbolKind(e))
             IN  /\ Answer(i).code = 0
                 /\ SymbolsSent(Answer(i).result.symbols) = SymbolsOf(expected)]_vars

\* --------------------------------------------------- symbol ranges (C24)
\* The files, names and line numbers findSymbolRangeInFile is applied to
RangeFiles ==
    {<<>>,
     << <<"H", "i", " ", "x">> >>,
     << <<"é", " ", "x">>, <<"x">> >>,
     << <<"x", " ", "x">>, <<>>, <<"H", "i">> >>,
     << <<"h", "i", ".", "H", "o">>, <<"é">> >>}

RangeNames == {"Hi", "hi", "Ho", "x", "é"}

ApplyFindSymbolRangeInFile(lines, symbolName, lineNumber) ==
    /\ probe = NoProbe
    /\ probe' = [fn |-> "findSymbolRangeInFile", lines |-> lines,
                 symbolName |-> symbolName, lineNumber |-> lineNumber,
                 out |-> findSymbolRangeInFile(lines, symbolName, lineNumber)]
    /\ UNCHANGED server

RangeNext ==
    \E lines \in RangeFiles, symbolName \in RangeNames, lineNumber \in 0..MaxLineNumber :
        ApplyFindSymbolRangeInFile(lines, symbolName, lineNumber)

RangeSpec == FunctionInit /\ [][RangeNext]_vars

\* The characters before each occurrence of the name on the line
OccurrencesOn(line, name) ==
    {k \in 0..(Len(line) - Len(Runes(name))) :
        SubSeq(line, k + 1, k + Len(Runes(name))) = Runes(name)}

\* C24: findSymbolRangeInFile, for the 1-based line number n, returns the
\* zero-width range at character 0 of line n when there is no line n; the
\* range from character 0 to the length of the line when the name is not
\* on line n; and otherwise the range of the characters of the first
\* occurrence of the name on line n, whose end is its start plus the
\* length of the name.
C24_SymbolRange ==
    probe.fn = "findSymbolRangeInFile" =>
        LET n == probe.lineNumber
            at == n - 1
        IN  IF n < 1 \/ n > Len(probe.lines)
            THEN probe.out = Range(at, 0, at, 0)
            ELSE LET line == probe.lines[n]
                     occ == OccurrencesOn(line, probe.symbolName)
                     first == CHOOSE k \in occ : \A m \in occ : k <= m
                 IN  IF occ = {}
                     THEN probe.out = Range(at, 0, at, Len(line))
                     ELSE probe.out = Range(at, first, at,
                                            first + Len(Runes(probe.symbolName)))

\* ------------------------------------------- tag file fields (C25 to C27)
\* A line of a tag file is the sequence of its tab-separated fields and a
\* field is the sequence of its tokens: words, numbers and the separators
\* ":" "," "!".
TokenLen(tok) ==
    CASE tok \in {"f", "c", ":", ",", "!", "0", "7"} -> 1
      [] tok = "42" -> 2
      [] tok = "go" -> 2
      [] tok = ";\"" -> 2
      [] tok = "class" -> 5
      [] tok = "member" -> 6
      [] tok = "function" -> 8
      [] OTHER -> 4

RECURSIVE TextLen(_)
TextLen(text) == IF text = <<>> THEN 0 ELSE TokenLen(Head(text)) + TextLen(Tail(text))

\* strings.Cut and strings.SplitN(_, _, 2): the text before and after the
\* first separator
Cut(text, sep) ==
    LET at == {k \in DOMAIN text : text[k] = sep}
        first == CHOOSE k \in at : \A m \in at : k <= m
    IN  IF at = {} THEN [ok |-> FALSE, before |-> text, after |-> <<>>]
        ELSE [ok |-> TRUE, before |-> SubSeq(text, 1, first - 1),
              after |-> SubSeq(text, first + 1, Len(text))]

\* strings.TrimSuffix
TrimSuffix(text, suffix) ==
    IF text # <<>> /\ text[Len(text)] = suffix THEN SubSeq(text, 1, Len(text) - 1)
    ELSE text

\* strconv.Atoi
Atoi(text) ==
    CASE text = <<"0">> -> [ok |-> TRUE, n |-> 0]
      [] text = <<"7">> -> [ok |-> TRUE, n |-> 7]
      [] text = <<"42">> -> [ok |-> TRUE, n |-> 42]
      [] OTHER -> [ok |-> FALSE, n |-> 0]

newTagfileKindMap == [byLanguage |-> <<>>, any |-> <<>>, kindNames |-> {}]

tagfileKindMapAdd(kindMap, language, letter, kind) ==
    LET lang == IF language = <<>> THEN <<"default">> ELSE language
        byLang == IF lang \in DOMAIN kindMap.byLanguage
                  THEN kindMap.byLanguage[lang] ELSE <<>>
    IN  [byLanguage |-> (lang :> ((letter :> kind) @@ byLang)) @@ kindMap.byLanguage,
         any |-> IF letter \in DOMAIN kindMap.any THEN kindMap.any
                 ELSE (letter :> kind) @@ kindMap.any,
         kindNames |-> kindMap.kindNames \cup {kind}]

\* Mutant: the mapping of the language of the entry is not looked at
tagfileKindMapResolveAny(kindMap, language, letter) ==
    IF letter \in DOMAIN kindMap.any
    THEN [ok |-> TRUE, kind |-> kindMap.any[letter]]
    ELSE [ok |-> FALSE, kind |-> <<>>]

tagfileKindMapResolve(kindMap, language, letter) ==
    IF /\ language # <<>>
       /\ language \in DOMAIN kindMap.byLanguage
       /\ letter \in DOMAIN kindMap.byLanguage[language]
    THEN [ok |-> TRUE, kind |-> kindMap.byLanguage[language][letter]]
    ELSE IF letter \in DOMAIN kindMap.any
    THEN [ok |-> TRUE, kind |-> kindMap.any[letter]]
    ELSE [ok |-> FALSE, kind |-> <<>>]

isKindName(kindMap, kind) == kind \in kindMap.kindNames

parseTagfileKindDescription(fields, kindMap) ==
    IF fields[1] = <<>> \/ fields[1][1] # "!_TAG_KIND_DESCRIPTION" THEN kindMap
    ELSE IF Len(fields) < 2 THEN kindMap
    ELSE LET rest == Tail(fields[1])
             language == IF rest # <<>> /\ rest[1] = "!" THEN Tail(rest) ELSE <<>>
             parts == Cut(fields[2], ",")
         IN  IF ~parts.ok \/ parts.before = <<>> \/ parts.after = <<>> THEN kindMap
             ELSE tagfileKindMapAdd(kindMap, language, parts.before, parts.after)

resolveTagfileKind(kindField, entry, kindMap) ==
    IF TextLen(kindField) # 1 THEN kindField
    ELSE LET mapped == tagfileKindMapResolve(kindMap, entry.language, kindField)
         IN  IF mapped.ok THEN mapped.kind ELSE kindField

\* Mutant: a key that is no kind name declares a scope too
parseTagfileFieldAnyKey(st, field, kindMap) ==
    LET cut == Cut(field, ":")
        key == cut.before
        value == cut.after
        entry == st.entry
    IN  IF field = <<>> \/ ~cut.ok THEN st
        ELSE CASE key = <<"line">> ->
                    IF Atoi(value).ok
                    THEN [st EXCEPT !.entry.line = Atoi(value).n] ELSE st
               [] key = <<"language">> -> [st EXCEPT !.entry.language = value]
               [] key = <<"kind">> -> [st EXCEPT !.kindField = value]
               [] key = <<"typeref">> -> [st EXCEPT !.entry.typeref = value]
               [] key = <<"scope">> -> [st EXCEPT !.entry.scope = value]
               [] key = <<"scopeKind">> -> [st EXCEPT !.entry.scopeKind = value]
               [] OTHER ->
                    IF entry.scope = <<>> /\ entry.scopeKind = <<>>
                    THEN [st EXCEPT !.entry.scopeKind = key, !.entry.scope = value]
                    ELSE st

\* One round of the loop of parseTagfileEntry over the extension fields:
\* st holds the entry and kindField
parseTagfileField(st, field, kindMap) ==
    LET cut == Cut(field, ":")
        key == cut.before
        value == cut.after
        entry == st.entry
    IN  IF field = <<>> \/ ~cut.ok THEN st
        ELSE CASE key = <<"line">> ->
                    IF Atoi(value).ok
                    THEN [st EXCEPT !.entry.line = Atoi(value).n] ELSE st
               [] key = <<"language">> -> [st EXCEPT !.entry.language = value]
               [] key = <<"kind">> -> [st EXCEPT !.kindField = value]
               [] key = <<"typeref">> -> [st EXCEPT !.entry.typeref = value]
               [] key = <<"scope">> -> [st EXCEPT !.entry.scope = value]
               [] key = <<"scopeKind">> -> [st EXCEPT !.entry.scopeKind = value]
               [] OTHER ->
                    IF /\ entry.scope = <<>> /\ entry.scopeKind = <<>>
                       /\ isKindName(kindMap, key)
                    THEN [st EXCEPT !.entry.scopeKind = key, !.entry.scope = value]
                    ELSE st

RECURSIVE parseTagfileFields(_, _, _)
parseTagfileFields(st, fields, kindMap) ==
    IF fields = <<>> THEN st
    ELSE parseTagfileFields(parseTagfileField(st, Head(fields), kindMap),
                            Tail(fields), kindMap)

\* The entry and kindField before the loop over the extension fields, and
\* the fields the loop runs over
tagfileEntryStart(fields) ==
    LET bare == Len(fields) > 3 /\ ~Cut(fields[4], ":").ok
    IN  [entry |-> [name |-> fields[1], path |-> fields[2],
                    pattern |-> TrimSuffix(fields[3], ";\""),
                    line |-> 0, language |-> <<>>, kind |-> <<>>,
                    typeref |-> <<>>, scope |-> <<>>, scopeKind |-> <<>>],
         kindField |-> IF bare THEN fields[4] ELSE <<>>,
         rest |-> SubSeq(fields, IF bare THEN 5 ELSE 4, Len(fields))]

\* The path written in a field of a tag file
TagPath(text) ==
    IF text = <<"a.go">> THEN P(FALSE, FALSE, <<"a.go">>)
    ELSE P(FALSE, FALSE, <<"..", "x.go">>)

\* parseTagfileEntry for the fields of a line, with the kind map made by
\* the lines before it
parseTagfileEntryFields(fields, tagsPath, root, kindMap) ==
    IF Len(fields) < 3 THEN [ok |-> FALSE]
    ELSE LET start == tagfileEntryStart(fields)
             st == parseTagfileFields([entry |-> start.entry,
                                       kindField |-> start.kindField],
                                      start.rest, kindMap)
             patternLine == Atoi(st.entry.pattern)
             lined == IF st.entry.line = 0 /\ patternLine.ok
                      THEN [st.entry EXCEPT !.line = patternLine.n] ELSE st.entry
             kinded == IF st.kindField # <<>>
                       THEN [lined EXCEPT
                                !.kind = resolveTagfileKind(st.kindField, lined, kindMap)]
                       ELSE lined
             relPath == tagfilePathToRootRelative(root, tagsPath, TagPath(kinded.path))
         IN  IF ~relPath.ok THEN [ok |-> FALSE]
             ELSE [ok |-> TRUE, entry |-> [kinded EXCEPT !.path = relPath.segs]]

\* The loop of parseTagfile over the lines of the file
RECURSIVE parseTagfileText(_, _, _, _, _)
parseTagfileText(lines, tagsPath, root, kindMap, entries) ==
    IF lines = <<>> THEN entries
    ELSE LET fields == Head(lines)
             parsed == parseTagfileEntryFields(fields, tagsPath, root, kindMap)
         IN  IF \A k \in DOMAIN fields : fields[k] = <<>>
             THEN parseTagfileText(Tail(lines), tagsPath, root, kindMap, entries)
             ELSE IF fields[1] # <<>> /\ fields[1][1] \in {"!_TAG_KIND_DESCRIPTION", "!_TAG_FILE_SORTED"}
             THEN parseTagfileText(Tail(lines), tagsPath, root,
                                   parseTagfileKindDescription(fields, kindMap), entries)
             ELSE parseTagfileText(Tail(lines), tagsPath, root, kindMap,
                                   IF parsed.ok THEN Append(entries, parsed.entry)
                                   ELSE entries)

\* The kind map parseTagfile has made of the lines before an entry
RECURSIVE tagfileKindMapOf(_, _)
tagfileKindMapOf(lines, kindMap) ==
    IF lines = <<>> THEN kindMap
    ELSE tagfileKindMapOf(Tail(lines), parseTagfileKindDescription(Head(lines), kindMap))

\* The entry and kindField of parseTagfileEntry before its loop and after
\* each round of it
tagfileFieldSteps(fields, kindMap) ==
    LET start == tagfileEntryStart(fields)
    IN  [k \in 0..Len(start.rest) |->
            [field |-> IF k = 0 THEN <<>> ELSE start.rest[k],
             st |-> parseTagfileFields([entry |-> start.entry,
                                        kindField |-> start.kindField],
                                       SubSeq(start.rest, 1, k), kindMap)]]

\* The pragmas, patterns and extension fields of the tag files of
\* TagfileSpec
PragmaGoF == << <<"!_TAG_KIND_DESCRIPTION", "!", "go">>, <<"f", ",", "function">> >>
PragmaPythonF == << <<"!_TAG_KIND_DESCRIPTION", "!", "python">>, <<"f", ",", "member">> >>
PragmaClass == << <<"!_TAG_KIND_DESCRIPTION">>, <<"c", ",", "class">> >>
Headers ==
    {<<>>, <<PragmaGoF>>, <<PragmaClass>>, <<PragmaPythonF, PragmaGoF>>,
     <<PragmaGoF, PragmaPythonF>>, <<PragmaClass, PragmaPythonF>>}

Patterns == {<<"42", ";\"">>, <<"/^x$/", ";\"">>}

ExtFields ==
    {<<"f">>, <<"kind", ":", "f">>, <<"kind", ":", "class">>, <<"language", ":", "go">>,
     <<"line", ":", "7">>, <<"line", ":", "0">>,
     <<"class", ":", "Foo">>, <<"member", ":", "Bar">>, <<"other", ":", "val">>,
     <<"scope", ":", "Baz">>, <<"scopeKind", ":", "enum">>}

SeqsUpTo(S, n) == UNION {[1..k -> S] : k \in 0..n}

TagsPath == P(FALSE, TRUE, <<"ws", "tags">>)

\* parseTagfile applied to a tag file of pragmas, one entry line and
\* maybe a pragma after it
ApplyParseTagfile(header, pattern, ext, trailer) ==
    /\ probe = NoProbe
    /\ probe' =
          LET fields == << <<"main">>, <<"a.go">>, pattern >> \o ext
              lines == header \o <<fields>> \o trailer
          IN  [fn |-> "parseTagfile", header |-> header, fields |-> fields,
               trailer |-> trailer,
               steps |-> tagfileFieldSteps(
                             fields, tagfileKindMapOf(header, newTagfileKindMap)),
               out |-> parseTagfileText(lines, TagsPath, RootDir,
                                        newTagfileKindMap, <<>>)]
    /\ UNCHANGED server

TagfileNext ==
    \E header \in Headers, pattern \in Patterns,
       ext \in SeqsUpTo(ExtFields, MaxExtFields),
       trailer \in {<<>>, <<PragmaClass>>} :
        ApplyParseTagfile(header, pattern, ext, trailer)

TagfileSpec == FunctionInit /\ [][TagfileNext]_vars

\* The parts of a pragma line that registers a kind
PragmaLanguage(p) == SubSeq(p[1], 3, Len(p[1]))
PragmaLetter(p) == <<p[2][1]>>
PragmaKind(p) == <<p[2][3]>>

\* The value of the last extension field of the entry line with this key,
\* or the empty text
ExtFieldsOf(fields) == SubSeq(fields, 4, Len(fields))
LastValue(fields, key) ==
    LET ext == ExtFieldsOf(fields)
        at == {k \in DOMAIN ext : Len(ext[k]) = 3 /\ ext[k][1] = key /\ ext[k][2] = ":"}
    IN  IF at = {} THEN <<>> ELSE <<ext[CHOOSE k \in at : \A m \in at : m <= k][3]>>

\* The kind value of the entry line: its kind field, or else its fourth
\* field when that is a bare value
KindValue(fields) ==
    IF LastValue(fields, "kind") # <<>> THEN LastValue(fields, "kind")
    ELSE IF Len(fields) > 3 /\ Len(fields[4]) = 1 THEN fields[4]
    ELSE <<>>

SingleLetter(text) == Len(text) = 1 /\ text[1] \in {"f", "c"}

\* C25: the kind of an entry of a tag file whose kind value is a single
\* letter is the kind a pragma before the entry registered for the letter
\* and the language of the entry, or else the kind the first pragma
\* before the entry registered for the letter in any language, or else
\* the letter; a longer kind value is the kind as it is.
C25_KindResolved ==
    (probe.fn = "parseTagfile" /\ probe.out # <<>> /\ KindValue(probe.fields) # <<>>) =>
        LET value == KindValue(probe.fields)
            language == LastValue(probe.fields, "language")
            header == probe.header
            ofLanguage == {k \in DOMAIN header :
                              /\ language # <<>>
                              /\ PragmaLanguage(header[k]) = language
                              /\ PragmaLetter(header[k]) = value}
            ofAny == {k \in DOMAIN header : PragmaLetter(header[k]) = value}
            kind == probe.out[1].kind
        IN  IF ~SingleLetter(value) THEN kind = value
            ELSE IF ofLanguage # {}
            THEN \E k \in ofLanguage : kind = PragmaKind(header[k])
            ELSE IF ofAny # {}
            THEN kind = PragmaKind(header[CHOOSE k \in ofAny : \A m \in ofAny : k <= m])
            ELSE kind = value

\* After the pragmas of python and of go for the letter f, an entry of
\* language go with kind f has the kind function of go and not the kind
\* member the first pragma registered for f
C25_Witness ==
    /\ probe.fn = "parseTagfile"
    /\ probe.header = <<PragmaPythonF, PragmaGoF>>
    /\ ExtFieldsOf(probe.fields) = << <<"kind", ":", "f">>, <<"language", ":", "go">> >>
    /\ probe.out # <<>> /\ probe.out[1].kind = <<"function">>

\* C26: the line of an entry of a tag file is the number of its line
\* field when it has one, and otherwise the number its pattern is once
\* the closing ;" is taken off, when the pattern is a bare number.
C26_EntryLine ==
    (probe.fn = "parseTagfile" /\ probe.out # <<>>) =>
        LET explicit == LastValue(probe.fields, "line")
            written == probe.fields[3]
            pattern == IF written[Len(written)] = ";\""
                       THEN SubSeq(written, 1, Len(written) - 1) ELSE written
        IN  IF explicit # <<>> THEN probe.out[1].line = Atoi(explicit).n
            ELSE Atoi(pattern).ok => probe.out[1].line = Atoi(pattern).n

\* The keys parseTagfileEntry knows
KnownKeys == {"line", "language", "kind", "typeref", "scope", "scopeKind"}

\* C27: an extension field key:value whose key is none of line, language,
\* kind, typeref, scope and scopeKind changes the entry only when the key
\* is a kind name a pragma before the entry registered and the entry has
\* no scope yet, and then by making key its scopeKind and value its scope,
\* which it does whenever the entry has neither scope nor scopeKind yet;
\* in every other case the entry stays as it was.
C27_UnknownKeyScope ==
    probe.fn = "parseTagfile" =>
        \A k \in DOMAIN probe.steps \ {0} :
            LET field == probe.steps[k].field
                before == probe.steps[k - 1].st
                after == probe.steps[k].st
                registered == \E p \in DOMAIN probe.header :
                                 PragmaKind(probe.header[p]) = <<field[1]>>
                declared == [before EXCEPT !.entry.scopeKind = <<field[1]>>,
                                           !.entry.scope = <<field[3]>>]
            IN  (Len(field) = 3 /\ field[2] = ":" /\ field[1] \notin KnownKeys) =>
                    /\ after # before =>
                          registered /\ before.entry.scope = <<>> /\ after = declared
                    /\ (registered /\ before.entry.scope = <<>>
                           /\ before.entry.scopeKind = <<>>) => after = declared
                    /\ ~(registered /\ before.entry.scope = <<>>) => after = before

\* After the pragma of the kind class the field class:Foo has made class
\* the scopeKind and Foo the scope of the entry, and the field member:Bar
\* after it has changed nothing
C27_Witness ==
    /\ probe.fn = "parseTagfile"
    /\ probe.header = <<PragmaClass, PragmaPythonF>>
    /\ ExtFieldsOf(probe.fields) = << <<"class", ":", "Foo">>, <<"member", ":", "Bar">> >>
    /\ probe.out # <<>>
    /\ probe.out[1].scopeKind = <<"class">> /\ probe.out[1].scope = <<"Foo">>
    /\ probe.steps[2].st = probe.steps[1].st

\* ----------------------------------------------------- locks (C28 to C30)
\* The handlers step by step of their locks. The lock a goroutine holds
\* follows from the place it has reached: server.mutex from its Lock to
\* its Unlock (deferred to the return in handleDefinition), cache.mutex
\* from RLock to RUnlock and from Lock to Unlock in GetOrLoadFileContent.
HoldsIndexLock(t) ==
    t.pc \in {"loop", "rlocked", "read", "loaded", "wlocked", "dropLocked", "appendLocked"}
HoldsCacheRLock(t) == t.pc = "rlocked"
HoldsCacheLock(t) == t.pc = "wlocked"

\* server.mutex.Lock() returns
IndexLockFree == \A j \in DOMAIN tasks : ~HoldsIndexLock(tasks[j])
\* cache.mutex.RLock() returns
CacheNoWriter == \A j \in DOMAIN tasks : ~HoldsCacheLock(tasks[j])
\* cache.mutex.Lock() returns
CacheLockFree ==
    \A j \in DOMAIN tasks : ~HoldsCacheLock(tasks[j]) /\ ~HoldsCacheRLock(tasks[j])

\* handleDefinition at server.mutex.Lock()
definitionLock(i) ==
    /\ Running(i) /\ tasks[i].pc = "locate"
    /\ IndexLockFree
    /\ tasks' = [tasks EXCEPT ![i].pc = "loop",
                              ![i].local = [symbol |-> tasks[i].local.symbol, k |-> 1,
                                            locations |-> <<>>, lines |-> <<>>]]
    /\ UNCHANGED <<proc, nread, initialized, rootPath, tagEntries, cache, output, env,
                   rescans>>

\* The task goes on to the next entry of the loop, with the location of
\* this one when lines are given
definitionStep(i, found, lines) ==
    LET t == tasks[i]
        entry == tagEntries[t.local.k]
        uri == relativePathToAbsoluteURI(rootPath, entry.path)
        location == Location(uri.uri,
                             findSymbolRangeInFile(lines, entry.name, entry.line))
    IN  tasks' = [tasks EXCEPT
                     ![i].pc = "loop",
                     ![i].local.k = @ + 1,
                     ![i].local.lines = <<>>,
                     ![i].local.locations = IF found THEN Append(@, location) ELSE @]

\* One round of the loop of handleDefinition up to the RLock of
\* GetOrLoadFileContent, or the end of the loop and of the handler
definitionEntry(i) ==
    /\ Running(i) /\ tasks[i].pc = "loop"
    /\ LET t == tasks[i]
           k == t.local.k
       IN  IF k > Len(tagEntries)
           THEN /\ sendResultOf(i, DefinitionResult(t.local.locations))
                /\ Return(i, "passed")
           ELSE IF \/ Runes(tagEntries[k].name) # t.local.symbol
                   \/ ~relativePathToAbsoluteURI(rootPath, tagEntries[k].path).ok
           THEN /\ definitionStep(i, FALSE, <<>>)
                /\ UNCHANGED output
           ELSE /\ CacheNoWriter
                /\ tasks' = [tasks EXCEPT ![i].pc = "rlocked"]
                /\ UNCHANGED output
    /\ UNCHANGED <<proc, nread, initialized, rootPath, tagEntries, cache, env, rescans>>

\* GetOrLoadFileContent from the read of the map to RUnlock
loadRUnlock(i) ==
    /\ Running(i) /\ tasks[i].pc = "rlocked"
    /\ LET path == tagEntries[tasks[i].local.k].path
       IN  IF path \in DOMAIN cache
           THEN definitionStep(i, TRUE, cache[path])
           ELSE tasks' = [tasks EXCEPT ![i].pc = "read"]
    /\ UNCHANGED <<proc, nread, initialized, rootPath, tagEntries, cache, output, env,
                   rescans>>

\* GetOrLoadFileContent: readFileLines
loadReadFile(i) ==
    /\ Running(i) /\ tasks[i].pc = "read"
    /\ LET file == FileLines(tagEntries[tasks[i].local.k].path)
       IN  IF file.ok
           THEN tasks' = [tasks EXCEPT ![i].pc = "loaded", ![i].local.lines = file.lines]
           ELSE definitionStep(i, FALSE, <<>>)
    /\ UNCHANGED <<proc, nread, initialized, rootPath, tagEntries, cache, output, env,
                   rescans>>

\* GetOrLoadFileContent at cache.mutex.Lock()
loadLock(i) ==
    /\ Running(i) /\ tasks[i].pc = "loaded"
    /\ CacheLockFree
    /\ tasks' = [tasks EXCEPT ![i].pc = "wlocked"]
    /\ UNCHANGED <<proc, nread, initialized, rootPath, tagEntries, cache, output, env,
                   rescans>>

\* GetOrLoadFileContent from the write of the map to its return
loadStore(i) ==
    /\ Running(i) /\ tasks[i].pc = "wlocked"
    /\ cache' = CachePut(cache, tagEntries[tasks[i].local.k].path, tasks[i].local.lines)
    /\ definitionStep(i, TRUE, tasks[i].local.lines)
    /\ UNCHANGED <<proc, nread, initialized, rootPath, tagEntries, output, env, rescans>>

\* handleDidSave up to server.mutex.Lock() in scanSingleFileTag
scanSingleFileLock(i) ==
    /\ Handling(i, "textDocument/didSave")
    /\ LET t == tasks[i]
           rel == toRootRelativePath(rootPath, t.params.uri)
       IN  IF t.params.ok /\ rel.ok /\ ~HasDotDotPrefix(rel.segs)
           THEN /\ IndexLockFree
                /\ tasks' = [tasks EXCEPT ![i].pc = "dropLocked", ![i].guard = "passed",
                                          ![i].path = rel.segs]
           ELSE Return(i, "passed")
    /\ UNCHANGED <<proc, nread, initialized, rootPath, tagEntries, cache, output, env,
                   rescans>>

\* scanSingleFileTag from the loop over the index to Unlock
scanSingleFileDrop(i) ==
    /\ Running(i) /\ tasks[i].pc = "dropLocked"
    /\ tagEntries' = dropPath(tagEntries, tasks[i].path)
    /\ rescans' = rescans + 1
    /\ tasks' = [tasks EXCEPT ![i].pc = "rescan"]
    /\ UNCHANGED <<proc, nread, initialized, rootPath, cache, output, env>>

\* processTagsOutput of the single-file invocation up to
\* server.mutex.Lock(), or to its return when the invocation fails
tagsOutputLock(i, ok) ==
    /\ Running(i) /\ tasks[i].pc = "rescan"
    /\ IF ok
       THEN /\ IndexLockFree
            /\ tasks' = [tasks EXCEPT
                            ![i].pc = "appendLocked",
                            ![i].local = [entries |-> tagsOutputEntries(
                                                         <<tasks[i].path>>, ok, rootPath)]]
       ELSE Return(i, "passed")
    /\ UNCHANGED <<proc, nread, initialized, rootPath, tagEntries, cache, output, env,
                   rescans>>

\* processTagsOutput from the append to Unlock
tagsOutputAppend(i) ==
    /\ Running(i) /\ tasks[i].pc = "appendLocked"
    /\ tagEntries' = tagEntries \o tasks[i].local.entries
    /\ Return(i, "passed")
    /\ UNCHANGED <<proc, nread, initialized, rootPath, cache, output, env, rescans>>

\* The first n of the entries, with zero values of TagEntry where there
\* are fewer
Resize(entries, n) ==
    [k \in 1..n |-> IF k <= Len(entries) THEN entries[k] ELSE TagEntry("", <<>>, "", 0)]

\* What the loop of handleCompletion, which reads server.tagEntries without
\* server.mutex, can range over: the index, and while another goroutine
\* is at its write of server.tagEntries the index it writes or a slice of
\* the array of one with the length of the other
IndexViews ==
    {tagEntries}
    \cup UNION {LET written == IF tasks[j].pc = "dropLocked"
                               THEN dropPath(tagEntries, tasks[j].path)
                               ELSE tagEntries \o tasks[j].local.entries
                IN  {written, Resize(written, Len(tagEntries)),
                     Resize(tagEntries, Len(written))} :
                   j \in {w \in DOMAIN tasks : tasks[w].pc \in {"dropLocked", "appendLocked"}}}

\* handleCompletion from the loop over the index to its end, beside the
\* goroutines that write the index
completionRange(i, view) ==
    /\ Running(i) /\ tasks[i].pc = "items"
    /\ view \in IndexViews
    /\ LET t == tasks[i]
           items == completionItems(view, t.local.word, t.local.isAfterDot,
                                    Ext(P(FALSE, FALSE, t.path)), rootPath, <<>>)
       IN  sendResultOf(i, CompletionList(items, items = <<>>))
    /\ Return(i, "passed")
    /\ UNCHANGED <<proc, nread, initialized, rootPath, tagEntries, cache, env, rescans>>

\* The session of LockSpec: b.py with the text "Hi" is open, a.go is not
LockLines == << <<"H", "i">> >>

LockInit ==
    /\ proc = "up"
    /\ nread = 0
    /\ tasks = <<>>
    /\ initialized = TRUE
    /\ rootPath = RootDir
    /\ tagEntries = SessionIndex
    /\ cache = CachePut(<<>>, <<"b.py">>, LockLines)
    /\ output = [w \in 0..MaxMsgs |-> <<>>]
    /\ rescans = 0
    /\ probe = NoProbe
    /\ tagfilePath = NoRoot
    /\ disk = {}
    /\ listFails = FALSE

LockFrames ==
    {Frame("crlf", "ok", "json", Req(m, "absent", DocParams(m, DocInside))) :
        m \in {"textDocument/didOpen", "textDocument/didChange",
               "textDocument/didClose", "textDocument/didSave"}}
    \cup {Frame("crlf", "ok", "json",
                Req(m, "int", PositionParams(DocPy, 0, 2))) :
             m \in {"textDocument/completion", "textDocument/definition"}}
    \cup {Frame("crlf", "ok", "json",
                Req("textDocument/documentSymbol", "int", Params(DocInside, <<>>)))}

LockNext ==
    \/ \E f \in LockFrames : ServeDispatch(f)
    \/ \E i \in TaskIds : CacheLockFree /\ handleDidOpen(i)
    \/ \E i \in TaskIds : CacheLockFree /\ handleDidChange(i)
    \/ \E i \in TaskIds : CacheLockFree /\ handleDidClose(i)
    \/ \E i \in TaskIds : CacheLockFree /\ handleDefinition(i)
    \/ \E i \in TaskIds : IndexLockFree /\ CacheLockFree /\ handleDocumentSymbol(i)
    \/ \E i \in TaskIds : definitionLock(i)
    \/ \E i \in TaskIds : definitionEntry(i)
    \/ \E i \in TaskIds : loadRUnlock(i)
    \/ \E i \in TaskIds : loadReadFile(i)
    \/ \E i \in TaskIds : loadLock(i)
    \/ \E i \in TaskIds : loadStore(i)
    \/ \E i \in TaskIds : scanSingleFileLock(i)
    \/ \E i \in TaskIds : scanSingleFileDrop(i)
    \/ \E i \in TaskIds, ok \in BOOLEAN : tagsOutputLock(i, ok)
    \/ \E i \in TaskIds : tagsOutputAppend(i)
    \/ \E i \in TaskIds : CacheNoWriter /\ handleCompletion(i)
    \/ \E i \in TaskIds : CacheLockFree /\ getCurrentWord(i)
    \/ \E i \in TaskIds, view \in IndexViews : completionRange(i, view)

LockSpec == LockInit /\ [][LockNext]_vars

\* Task i runs its handler of a notification of the given methods in this
\* step, for the document of the path
Notifies(i, methods, path) ==
    /\ i \in DOMAIN tasks /\ tasks[i].pc = "start"
    /\ tasks[i].method \in methods
    /\ tasks[i].params.ok
    /\ ~ResolvesOutside(rootPath, tasks[i].params.uri)
    /\ PathBelowRoot(rootPath, tasks[i].params.uri) = path
    /\ i \in DOMAIN tasks' /\ tasks'[i].pc = "done"

CachePaths == {<<"a.go">>, <<"b.py">>}

\* C28: the content the editor has sent is the content of the cache: the
\* handler of didOpen and the handler of didChange leave the text of the
\* notification, split into lines, in the cache for the document; the
\* handler of didClose leaves the document out of the cache; and the
\* lines the cache has for a document are replaced or removed by the
\* handlers of these notifications for the document only, so that a
\* lookup finds the text of the editor until the document is closed.
C28_EditorAuthoritative ==
    [][\A path \in CachePaths :
          /\ \A i \in TaskIds :
                /\ Notifies(i, {"textDocument/didOpen"}, path) =>
                      /\ path \in DOMAIN cache'
                      /\ cache'[path] = SplitLines(tasks[i].params.text, <<>>)
                /\ (Notifies(i, {"textDocument/didChange"}, path)
                       /\ tasks[i].params.changes # <<>>) =>
                      /\ path \in DOMAIN cache'
                      /\ cache'[path] = SplitLines(tasks[i].params.changes[1], <<>>)
                /\ Notifies(i, {"textDocument/didClose"}, path) =>
                      path \notin DOMAIN cache'
          /\ (path \in DOMAIN cache
                 /\ (path \notin DOMAIN cache' \/ cache'[path] # cache[path])) =>
                \E i \in TaskIds :
                    Notifies(i, {"textDocument/didOpen", "textDocument/didChange",
                                 "textDocument/didClose"}, path)]_vars

\* C29: no goroutine holds server.mutex and cache.mutex, for reading or
\* for writing, at the same time.
C29_OneLockAtATime ==
    \A i \in DOMAIN tasks :
        ~(HoldsIndexLock(tasks[i])
             /\ (HoldsCacheRLock(tasks[i]) \/ HoldsCacheLock(tasks[i])))

\* The goroutine is at a read or a write of server.tagEntries, or at a
\* write of it, or at a read or a write of the map of the cache
AtIndexAccess(t) == t.pc \in {"loop", "dropLocked", "appendLocked", "items"}
AtIndexWrite(t) == t.pc \in {"dropLocked", "appendLocked"}
AtCacheAccess(t) == t.pc \in {"rlocked", "wlocked"}

\* C30: a goroutine of a request at a read or a write of the index holds
\* server.mutex and one at a read or a write of the cache holds
\* cache.mutex, and no goroutine is at a read of the index while another
\* is at a write of it.
C30_AccessUnderLock ==
    /\ \A i \in DOMAIN tasks :
          /\ AtIndexAccess(tasks[i]) => HoldsIndexLock(tasks[i])
          /\ AtCacheAccess(tasks[i]) =>
                HoldsCacheRLock(tasks[i]) \/ HoldsCacheLock(tasks[i])
    /\ \A i, j \in DOMAIN tasks :
          (i # j /\ AtIndexWrite(tasks[j])) => ~AtIndexAccess(tasks[i])

----------------------------------------------------------------------------
\* Response frames and the state after initialize (C31)

\* The path of a root URI: the URI without its file:// scheme
PathOfURI(uri) == [uri |-> FALSE, abs |-> uri.abs, segs |-> uri.segs]

\* Handler i has written a result
Succeeded(i) ==
    \E k \in DOMAIN output[i] : output[i][k].code = 0

\* The responses written so far are well framed and echo their requests
FramesEcho ==
    \A w \in DOMAIN tasks :
        \A k \in DOMAIN output[w] :
            LET o == output[w][k]
            IN  /\ o.jsonrpc = "2.0"
                /\ o.id = IF tasks[w].id = Null THEN NullID
                          ELSE [shape |-> tasks[w].id, n |-> w]
                /\ o.contentLength = Len(Marshal(o))
                /\ Marshal(o)[1] = [name |-> "jsonrpc", value |-> "2.0"]
                /\ Marshal(o)[2].value = o.id

----------------------------------------------------------------------------
\* Lookup misses (C32)

LookupMethods == {"textDocument/completion", "textDocument/definition"}

\* C32: a completion or definition request with any integer line and
\* character ends with exactly one response, a result or an error, and the
\* server keeps running: no position makes the process panic
C32_LookupMissNonFatal ==
    /\ proc # "crashed"
    /\ \A i \in DOMAIN tasks :
           (/\ tasks[i].method \in LookupMethods
            /\ tasks[i].id # Null /\ tasks[i].pc = "done")
           => /\ Len(output[i]) = 1
              /\ output[i][1].code \in {0, ErrInternal, ErrInvalidParams}

----------------------------------------------------------------------------
\* One response per message with an id (C33)

\* C33: every well-formed message that carries an id has received exactly
\* one response, a result or an error, when its handler has returned,
\* whatever its method
C33_EveryRequestAnswered ==
    \A i \in DOMAIN tasks :
        (tasks[i].id # Null /\ tasks[i].pc = "done") => Len(output[i]) = 1

----------------------------------------------------------------------------
\* Requests after the response of initialize (C34)

\* The result of an initialize has been written to the output
InitializeAnswered ==
    \E i \in DOMAIN tasks : tasks[i].method = "initialize" /\ Succeeded(i)

\* C34: once the result of initialize is written, no request that
\* handleRequest takes up afterwards is rejected as not initialized
C34_NoRejectAfterResult ==
    [][\A j \in DOMAIN tasks :
          (/\ InitializeAnswered
           /\ tasks[j].pc = "start"
           /\ j \in DOMAIN tasks' /\ tasks'[j].pc = "done")
          => /\ tasks'[j].guard # "rejected"
             /\ \A k \in DOMAIN output'[j] :
                    output'[j][k].code # ErrNotInitialized]_vars

----------------------------------------------------------------------------
\* Lazy loads and editor content (C35)

\* C35: when a didOpen or didChange of a.go and a definition lookup that
\* loads a.go have both finished, in whatever order their steps were taken,
\* the cache holds for a.go the text the editor sent
C35_LoadKeepsEditorText ==
    (/\ Len(tasks) = 2
     /\ \A i \in DOMAIN tasks : tasks[i].pc = "done"
     /\ \E i, j \in DOMAIN tasks :
           /\ tasks[i].method \in {"textDocument/didOpen", "textDocument/didChange"}
           /\ tasks[j].method = "textDocument/definition")
    => /\ <<"a.go">> \in DOMAIN cache
       /\ cache[<<"a.go">>] = SplitLines(DocText, <<>>)

----------------------------------------------------------------------------
\* Concurrent rescans of one path (C36)

\* The entries the index has for the path, in index order
EntriesOf(path) == SelectSeq(tagEntries, LAMBDA e : e.path = path)

\* C36: when two rescans of a.go started by didSave have both finished,
\* the index has for a.go the entries of one scan of it (none when the
\* indexer failed): nothing twice
C36_OneScanRemains ==
    (/\ Len(tasks) = 2
     /\ \A i \in DOMAIN tasks :
           tasks[i].method = "textDocument/didSave" /\ tasks[i].pc = "done")
    => EntriesOf(<<"a.go">>)
          \in {<<>>, tagsOutputEntries(<<<<"a.go">>>>, TRUE, rootPath)}

----------------------------------------------------------------------------
\* Queries beside a rescan (C37)

\* The names of the symbols of an answer, in order
SymbolNames(symbols) == [k \in DOMAIN symbols |-> symbols[k].name]

\* The names of the entries of a.go before the rescan and after it
NamesBefore ==
    LET before == SelectSeq(SessionIndex, LAMBDA e : e.path = <<"a.go">>)
    IN  [k \in DOMAIN before |-> before[k].name]
NamesAfter ==
    LET after == tagsOutputEntries(<<<<"a.go">>>>, TRUE, rootPath)
    IN  [k \in DOMAIN after |-> after[k].name]

\* C37: a documentSymbol query of a.go that ran beside one rescan of a.go,
\* which had entries before and has entries after, was answered with all
\* the entries a.go had before the rescan or all it has after: never with
\* none
C37_QuerySeesWholeSet ==
    \A i, j \in DOMAIN tasks :
        (/\ Len(tasks) = 2
         /\ tasks[i].method = "textDocument/didSave" /\ tasks[i].pc = "done"
         /\ tasks[j].method = "textDocument/documentSymbol" /\ tasks[j].pc = "done"
         /\ EntriesOf(<<"a.go">>) # <<>>)
        => /\ Len(output[j]) = 1
           /\ SymbolNames(output[j][1].result.symbols) \in {NamesBefore, NamesAfter}

----------------------------------------------------------------------------
\* The live scan loses and duplicates nothing (C38)

\* The files given to the invocations of the scan of task t, in chunk order
FedFiles(t) == Flatten([k \in DOMAIN t.chunks |-> t.chunks[k].files])

\* The number of times the invocations that succeeded have appended e
AppendedBySucceeded(e) ==
    Cardinality(
        {c \in (DOMAIN tasks) \X ChunkIds \X (1..(2 * Len(WorkspaceFiles))) :
            /\ c[2] \in DOMAIN tasks[c[1]].chunks
            /\ tasks[c[1]].chunks[c[2]].st = "ok"
            /\ LET out == decodeTagsOutput(
                              CtagsOutput(tasks[c[1]].chunks[c[2]].files), rootPath)
               IN  c[3] \in DOMAIN out /\ out[c[3]] = e})

\* C38: in a live scan every file of the file list is given to exactly one
\* invocation, and however the invocations interleave the index holds each
\* record that an invocation which succeeded has decoded exactly as often
\* as it was decoded: nothing is lost, nothing is there twice
C38_LiveScanExact ==
    LiveWorld =>
        /\ \A i \in DOMAIN tasks :
              tasks[i].chunks # <<>> =>
                  /\ FedFiles(tasks[i]) = WorkspaceFiles
                  /\ \A f \in DOMAIN WorkspaceFiles :
                        Cardinality(
                            {c \in ChunkIds \X DOMAIN WorkspaceFiles :
                                /\ c[1] \in DOMAIN tasks[i].chunks
                                /\ c[2] \in DOMAIN tasks[i].chunks[c[1]].files
                                /\ tasks[i].chunks[c[1]].files[c[2]] = WorkspaceFiles[f]})
                           = 1
        /\ rescans = 0 =>
              \A e \in AllRecords \cup {tagEntries[n] : n \in DOMAIN tagEntries} :
                  Occurrences(e, tagEntries) = AppendedBySucceeded(e)

\* Both invocations of a live scan have succeeded, the one of the second
\* chunk first: the index has the four records, Sea before those of the
\* first chunk
C38_Witness ==
    /\ LiveWorld /\ rescans = 0
    /\ \E i \in DOMAIN tasks :
          /\ tasks[i].pc = "done" /\ Len(tasks[i].chunks) = 2
          /\ \A k \in DOMAIN tasks[i].chunks : tasks[i].chunks[k].st = "ok"
    /\ Len(tagEntries) = 4
    /\ tagEntries[1].name = "Sea" /\ tagEntries[2].name = "Greeter"
    /\ tagEntries[3].name = "Hello" /\ tagEntries[4].name = "Bee"

----------------------------------------------------------------------------
\* The ranges of the locations of tag file entries (C39)

\* The range handleDefinition, handleWorkspaceSymbol and
\* handleDocumentSymbol put in the location of each entry that parseTagfile
\* has made of a line of a tag file, for a file with the given lines
EntryLocations(fields, lines, entries) ==
    [fn |-> "location", fields |-> fields, lines |-> lines, entries |-> entries,
     out |-> [k \in DOMAIN entries |->
                 findSymbolRangeInFile(lines, entries[k].name[1], entries[k].line)]]

ApplyEntryLocation(name, pattern, ext, lines) ==
    /\ probe = NoProbe
    /\ probe' = EntryLocations(
                    << <<name>>, <<"a.go">>, pattern >> \o ext, lines,
                    parseTagfileText(<< << <<name>>, <<"a.go">>, pattern >> \o ext >>,
                                     TagsPath, RootDir, newTagfileKindMap, <<>>))
    /\ UNCHANGED server

LocationNext ==
    \E name \in RangeNames, pattern \in Patterns,
       ext \in SeqsUpTo(ExtFields, 1), lines \in RangeFiles :
        ApplyEntryLocation(name, pattern, ext, lines)

LocationSpec == FunctionInit /\ [][LocationNext]_vars

\* C39: the range of the location of every entry that can be in the index,
\* an entry of a tag file without line field and with a pattern that is no
\* number included, has a start line and an end line that are not negative
\* and a start character that is not after its end character
C39_RangeWellFormed ==
    probe.fn = "location" =>
        \A k \in DOMAIN probe.out :
            /\ probe.out[k].start.line >= 0
            /\ probe.out[k].end.line >= 0
            /\ probe.out[k].start.character <= probe.out[k].end.character

----------------------------------------------------------------------------
\* Notifications in arrival order (C40)

\* The two messages read, in the order read, have these methods and their
\* handlers have returned
HandledInOrder(first, second) ==
    /\ Len(tasks) = 2
    /\ tasks[1].method = first /\ tasks[1].pc = "done"
    /\ tasks[2].method = second /\ tasks[2].pc = "done"

\* C40: notifications for a.go take effect in the order they were read:
\* after didOpen then didClose the document is not in the cache, and a
\* documentSymbol request read after didOpen is answered from the text of
\* the didOpen (f, g: the entry of line 2 spans the line g), not from the
\* file
C40_ArrivalOrder ==
    /\ HandledInOrder("textDocument/didOpen", "textDocument/didClose")
           => <<"a.go">> \notin DOMAIN cache
    /\ HandledInOrder("textDocument/didOpen", "textDocument/documentSymbol")
           => /\ Len(output[2]) = 1
              /\ Len(output[2][1].result.symbols) = 2
              /\ output[2][1].result.symbols[1].location.range = Range(1, 0, 1, 1)

====
